---- MODULE Spec2Model ----
(***************************************************************************)
(* A model of the health-app clients (src/app/welcome/page.tsx) running    *)
(* against one shared Firestore database.                                  *)
(*                                                                         *)
(* Every async handler is split at its awaits: the action named after the  *)
(* handler runs its synchronous prefix and leaves a call in flight; one    *)
(* action per await completes the backend call (successfully or by a       *)
(* rejection) and runs the handler up to its next await.  A backend call   *)
(* takes effect on the database at the step that completes it.             *)
(*                                                                         *)
(* JavaScript values: strings are TLA+ strings, null and undefined are     *)
(* Null, a stored boolean field is JsTrue / JsFalse (or Null when the      *)
(* field is absent), a Firestore Timestamp is the string ToTimestamp(date).*)
(***************************************************************************)
EXTENDS Integers, Sequences, FiniteSets, Bags, TLC

VARIABLES
    requests,            \* Firestore collection 'appointmentRequests': doc id -> document
    appointments,        \* Firestore collection 'appointments': doc id -> document
    apptOf,              \* history: apptOf[i] = id of the request whose scheduling created appointments[i]
    currentUser,         \* auth.currentUser of each client (a uid or Null)
    mounted,             \* whether the client's welcome-page component is mounted
    calls,               \* per client, the bag of handler invocations suspended at an await
    toast,               \* the toast() call of the last step: who raised it and its text
    docRequests,         \* DoctorWelcomePage.appointmentRequests
    selectedRequest,     \* DoctorWelcomePage.selectedRequest
    showCalendar,        \* DoctorWelcomePage.showCalendar
    date,                \* DoctorWelcomePage.date
    selectedTimeSlot,    \* DoctorWelcomePage.selectedTimeSlot
    medication,          \* DoctorWelcomePage.medication
    patRequests,         \* PatientWelcomePage.appointmentRequests
    resubmission,        \* state of the FlaggedReviewResubmission components: request id -> form
    medicalReport,       \* PatientWelcomePage.medicalReport
    reportReady,         \* PatientWelcomePage.reportReady
    isProcessing,        \* PatientWelcomePage.isProcessing
    isDialogOpen,        \* PatientWelcomePage.isDialogOpen
    isRecording,         \* PatientWelcomePage.isRecording
    audioData,           \* PatientWelcomePage.audioData
    stream,              \* PatientWelcomePage.stream (the state variable)
    mediaRecorder,       \* PatientWelcomePage.mediaRecorder and the recorder's own state
    micTracks,           \* the microphone tracks handed out by getUserMedia: "none", "live", "stopped"
    rejection,           \* the backend call that rejected in the last step, and whether a catch block took it
    accounts,            \* Firebase Auth: the accounts the sign-up form created, in order
    users,               \* Firestore collection 'users': uid -> document
    isLoading,           \* AuthForm.isLoading
    route,               \* the page the browser of the account holder shows
    userType,            \* WelcomePage.userType
    navbar               \* Navbar.loggedIn, Navbar.username, Navbar.userType

dbVars      == <<requests, appointments, apptOf>>
clientVars  == <<currentUser, mounted, calls>>
doctorVars  == <<docRequests, selectedRequest, showCalendar, date, selectedTimeSlot, medication>>
listVars    == <<patRequests, resubmission>>
voiceVars   == <<medicalReport, reportReady, isProcessing, isDialogOpen, isRecording,
                 audioData, stream, mediaRecorder, micTracks>>
authVars    == <<accounts, users, isLoading, route, userType, navbar>>
vars        == <<dbVars, clientVars, toast, rejection, doctorVars, listVars, voiceVars, authVars>>

----------------------------------------------------------------------------
(* Bounds of the model *)

MaxRequests     == 2     \* documents in 'appointmentRequests'
MaxAppointments == 2     \* documents in 'appointments'
MaxDoctorCalls  == 1     \* handler invocations a doctor's page has suspended at an await
MaxPatientCalls == 2     \* handler invocations the patient's page has suspended at an await
MaxStopEvents   == 1     \* stop events of the recorder queued and not yet delivered

Doctors  == {"drA", "drB"}
Patient  == "pat"
Clients  == Doctors \cup {Patient}

----------------------------------------------------------------------------
(* JavaScript values *)

Null    == "<null>"
JsTrue  == "true"
JsFalse == "false"

\* !v for a string-or-null value: null, undefined and '' are falsy
Falsy(v) == v = Null \/ v = ""

\* !v for a stored boolean-or-absent field
FlagSet(v) == v = JsTrue

RECURSIVE TrimStart(_)
TrimStart(s) ==
    IF Len(s) > 0 /\ SubSeq(s, 1, 1) = " " THEN TrimStart(SubSeq(s, 2, Len(s))) ELSE s

RECURSIVE TrimEnd(_)
TrimEnd(s) ==
    IF Len(s) > 0 /\ SubSeq(s, Len(s), Len(s)) = " " THEN TrimEnd(SubSeq(s, 1, Len(s) - 1)) ELSE s

\* String.prototype.trim
Trim(s) == TrimEnd(TrimStart(s))

\* A Date is "<day>T<time>"; Firestore stores a Date as a Timestamp and
\* Timestamp.toDate() gives the Date back.
ToTimestamp(d) == "ts:" \o d
ToDate(ts)     == SubSeq(ts, 4, Len(ts))

\* new Date(): the wall clock is not modelled, every reading is this instant
Now == "2026-01-05T10:30"

\* date-fns format(d, "PPP"): the day, without the time of day
FormatPPP(d) == "PPP " \o SubSeq(d, 1, 10)

\* new Date(date.getTime())
CopyDate(d) == d

\* user.displayName of the signed-in account: the account of drB was created
\* without a username (AuthForm.tsx 85-89 sets displayName only when one is given)
DisplayName(uid) == IF uid = "drA" THEN "Dr A" ELSE IF uid = "pat" THEN "Pat" ELSE Null

----------------------------------------------------------------------------
(* The Firestore collections.  A collection is a sequence of documents; a   *)
(* document's id is its index, addDoc appends.                              *)

\* RequestDoc with the account's display name stored as the patient's id
RequestDocByName(uid, username, report) ==
    [ patientId           |-> IF Falsy(username) THEN "Anonymous" ELSE username,
      patientUsername     |-> IF Falsy(username) THEN "Anonymous" ELSE username,
      symptoms            |-> report.transcript,
      diagnosis           |-> report.diagnosis,
      status              |-> "pending",
      createdAt           |-> ToTimestamp(Now),
      medication          |-> Null,
      scheduledDate       |-> Null,
      scheduledTime       |-> Null,
      flaggedForReview    |-> Null,
      resubmissionComment |-> Null ]

\* The document Firestore stores for the object handleContinue builds
\* (page.tsx 279-286): the optional fields are absent, the Date becomes a Timestamp.
RequestDoc(uid, username, report) ==
    [ patientId           |-> uid,
      patientUsername     |-> IF Falsy(username) THEN "Anonymous" ELSE username,
      symptoms            |-> report.transcript,
      diagnosis           |-> report.diagnosis,
      status              |-> "pending",
      createdAt           |-> ToTimestamp(Now),
      medication          |-> Null,
      scheduledDate       |-> Null,
      scheduledTime       |-> Null,
      flaggedForReview    |-> Null,
      resubmissionComment |-> Null ]

\* addDoc with the new document written under the id of the last one
AddDocOverLast(store, data) ==
    IF store = <<>> THEN <<data>> ELSE [store EXCEPT ![Len(store)] = data]

\* addDoc(collection, data): a new document under a new id
AddDoc(store, data) == Append(store, data)

\* updateDoc(ref, fields): only the named fields of the document change
UpdateDoc(store, id, fields) ==
    [store EXCEPT ![id] =
        [k \in DOMAIN @ |-> IF k \in DOMAIN fields THEN fields[k] ELSE @[k]]]

Ids(store) == [i \in 1..Len(store) |-> i]

\* query(collection, where('status', '==', 'pending')), in document order
PendingIds(store) == SelectSeq(Ids(store), LAMBDA i : store[i].status = "pending")

\* query(collection, where('patientId', '==', uid))
PatientIds(store, uid) == SelectSeq(Ids(store), LAMBDA i : store[i].patientId = uid)

\* { ...doc.data(), id: doc.id }
RawSnapshot(store, i) == [id |-> i] @@ store[i]

\* the mapping of the mount-time fetches (page.tsx 506-514, 365-374):
\* createdAt and scheduledDate are converted with toDate()
DateSnapshot(store, i) ==
    [id |-> i] @@
    [store[i] EXCEPT !.createdAt     = IF @ = Null THEN Now ELSE ToDate(@),
                     !.scheduledDate = IF @ = Null THEN Null ELSE ToDate(@)]

\* requests.filter(request => !request.flaggedForReview)
NonFlagged(snaps) == SelectSeq(snaps, LAMBDA r : ~FlagSet(r.flaggedForReview))

MapSeq(seq, F(_)) == [k \in 1..Len(seq) |-> F(seq[k])]

\* the list DoctorWelcomePage's mount effect computes (page.tsx 501-517)
DoctorFetchResult(store) ==
    NonFlagged(MapSeq(PendingIds(store), LAMBDA i : DateSnapshot(store, i)))

\* the list confirmScheduling and handleFlagForReview compute when they
\* refresh (page.tsx 638-649, 669-680)
DoctorRefreshResult(store) ==
    NonFlagged(MapSeq(PendingIds(store), LAMBDA i : RawSnapshot(store, i)))

\* the list PatientWelcomePage.fetchAppointmentRequests computes (page.tsx 360-375)
PatientFetchResult(store, uid) ==
    MapSeq(PatientIds(store, uid), LAMBDA i : DateSnapshot(store, i))

----------------------------------------------------------------------------
(* Calls in flight *)

InFlight(c)        == BagCardinality(calls[c])
CallsOf(c)         == BagToSet(calls[c])
Suspended(c, call) == [calls EXCEPT ![c] = @ (+) SetToBag({call})]
Finished(c, call)  == [calls EXCEPT ![c] = @ (-) SetToBag({call})]
Moved(c, call, to) == [calls EXCEPT ![c] = (@ (-) SetToBag({call})) (+) SetToBag({to})]
Toast(c, text)     == [client |-> c, text |-> text]
NoToast            == [client |-> Null, text |-> Null]

\* an await of client c on the backend call `call` rejected; caught: the await
\* stands in a try block whose catch took the error
Rejected(c, call, caught) == [client |-> c, call |-> call, caught |-> caught]
NoRejection               == [client |-> Null, call |-> Null, caught |-> TRUE]

----------------------------------------------------------------------------
(* DoctorWelcomePage (page.tsx 487-859) *)

NoRequest == [id |-> 0]      \* selectedRequest = null

availableTimeSlots == <<"9:00 AM", "10:00 AM", "11:00 AM", "2:00 PM", "3:00 PM", "4:00 PM">>

\* the scheduling modal is rendered (page.tsx 786); it covers the page
ModalOpen(d) == showCalendar[d] /\ selectedRequest[d] # NoRequest

\* the Confirm Schedule button is not disabled (page.tsx 849)
ConfirmEnabled(d) == ~Falsy(selectedTimeSlot[d]) /\ ~Falsy(Trim(medication[d]))

\* The page is loaded (or reloaded, once nothing of the old page is pending):
\* the useState initial values, and the mount effect starts its fetch.
DoctorMount(d) ==
    /\ InFlight(d) = 0
    /\ mounted' = [mounted EXCEPT ![d] = TRUE]
    /\ docRequests' = [docRequests EXCEPT ![d] = <<>>]
    /\ selectedRequest' = [selectedRequest EXCEPT ![d] = NoRequest]
    /\ showCalendar' = [showCalendar EXCEPT ![d] = FALSE]
    /\ date' = [date EXCEPT ![d] = Now]
    /\ selectedTimeSlot' = [selectedTimeSlot EXCEPT ![d] = Null]
    /\ medication' = [medication EXCEPT ![d] = ""]
    /\ calls' = Suspended(d, [op |-> "fetchAppointmentRequests", pc |-> "getDocs"])
    /\ toast' = NoToast
    /\ UNCHANGED <<dbVars, currentUser, listVars, voiceVars>>
    /\ rejection' = NoRejection
    /\ UNCHANGED authVars

\* the mount effect's getDocs returns (page.tsx 505-517) or rejects (518-524)
DoctorFetchDone(d, call, ok) ==
    /\ call \in CallsOf(d)
    /\ call.op = "fetchAppointmentRequests" /\ call.pc = "getDocs"
    /\ calls' = Finished(d, call)
    /\ IF ok
       THEN /\ docRequests' = [docRequests EXCEPT ![d] = DoctorFetchResult(requests)]
            /\ toast' = NoToast
       ELSE /\ toast' = Toast(d, "Error: Failed to fetch appointment requests.")
            /\ UNCHANGED docRequests
    /\ UNCHANGED <<dbVars, currentUser, mounted, selectedRequest, showCalendar, date,
                   selectedTimeSlot, medication, listVars, voiceVars>>
    /\ rejection' = IF ok THEN NoRejection ELSE Rejected(d, "getDocs", TRUE)
    /\ UNCHANGED authVars

\* page.tsx 575-578, the Schedule Appointment button of a listed request
handleScheduleAppointment(d, request) ==
    /\ mounted[d] /\ ~ModalOpen(d)
    /\ \E k \in 1..Len(docRequests[d]) : docRequests[d][k] = request
    /\ selectedRequest' = [selectedRequest EXCEPT ![d] = request]
    /\ showCalendar' = [showCalendar EXCEPT ![d] = TRUE]
    /\ toast' = NoToast
    /\ UNCHANGED <<dbVars, clientVars, docRequests, date, selectedTimeSlot, medication,
                   listVars, voiceVars>>
    /\ rejection' = NoRejection
    /\ UNCHANGED authVars

\* the Calendar's onSelect (page.tsx 799): d ?? null
CalendarSelect(d, day) ==
    /\ mounted[d] /\ ModalOpen(d)
    /\ date' = [date EXCEPT ![d] = day]
    /\ toast' = NoToast
    /\ UNCHANGED <<dbVars, clientVars, docRequests, selectedRequest, showCalendar,
                   selectedTimeSlot, medication, listVars, voiceVars>>
    /\ rejection' = NoRejection
    /\ UNCHANGED authVars

\* page.tsx 580-582; the slot buttons are rendered while a date is set (805)
handleTimeSlotClick(d, slot) ==
    /\ mounted[d] /\ ModalOpen(d) /\ date[d] # Null
    /\ selectedTimeSlot' = [selectedTimeSlot EXCEPT ![d] = slot]
    /\ toast' = NoToast
    /\ UNCHANGED <<dbVars, clientVars, docRequests, selectedRequest, showCalendar, date,
                   medication, listVars, voiceVars>>
    /\ rejection' = NoRejection
    /\ UNCHANGED authVars

\* the medication textarea's onChange (page.tsx 833)
MedicationChange(d, text) ==
    /\ mounted[d] /\ ModalOpen(d)
    /\ medication' = [medication EXCEPT ![d] = text]
    /\ toast' = NoToast
    /\ UNCHANGED <<dbVars, clientVars, docRequests, selectedRequest, showCalendar, date,
                   selectedTimeSlot, listVars, voiceVars>>
    /\ rejection' = NoRejection
    /\ UNCHANGED authVars

\* the Cancel button (page.tsx 838-846)
CancelScheduling(d) ==
    /\ mounted[d] /\ ModalOpen(d)
    /\ showCalendar' = [showCalendar EXCEPT ![d] = FALSE]
    /\ selectedRequest' = [selectedRequest EXCEPT ![d] = NoRequest]
    /\ selectedTimeSlot' = [selectedTimeSlot EXCEPT ![d] = Null]
    /\ date' = [date EXCEPT ![d] = Null]
    /\ medication' = [medication EXCEPT ![d] = ""]
    /\ toast' = NoToast
    /\ UNCHANGED <<dbVars, clientVars, docRequests, listVars, voiceVars>>
    /\ rejection' = NoRejection
    /\ UNCHANGED authVars

\* ScheduleFields with the review flag cleared along with the scheduling
ScheduleFieldsClearFlag(call) ==
    [ status           |-> "scheduled",
      scheduledDate    |-> ToTimestamp(call.firestoreDate),
      scheduledTime    |-> call.selectedTimeSlot,
      medication       |-> Trim(call.medication),
      flaggedForReview |-> JsFalse ]

\* the fields confirmScheduling writes to the request (page.tsx 606-611)
ScheduleFields(call) ==
    [ status        |-> "scheduled",
      scheduledDate |-> ToTimestamp(call.firestoreDate),
      scheduledTime |-> call.selectedTimeSlot,
      medication    |-> Trim(call.medication) ]

\* the Appointment confirmScheduling builds (page.tsx 614-621)
NewAppointment(call, user) ==
    [ appointmentDate |-> FormatPPP(call.firestoreDate),
      appointmentTime |-> call.selectedTimeSlot,
      assignedDoctor  |-> IF user = Null \/ Falsy(DisplayName(user)) THEN "Doctor"
                          ELSE DisplayName(user),
      patientUsername |-> call.selectedRequest.patientUsername,
      diagnosis       |-> call.selectedRequest.diagnosis,
      medication      |-> Trim(call.medication) ]

\* confirmScheduling without its first validation
confirmSchedulingUnguarded(d) ==
    /\ mounted[d] /\ ModalOpen(d)
    /\ IF Falsy(Trim(medication[d]))
       THEN /\ toast' = Toast(d, "Error: Please enter basic medication details.")
            /\ UNCHANGED calls
       ELSE /\ InFlight(d) < MaxDoctorCalls
            /\ calls' = Suspended(d, [ op               |-> "confirmScheduling",
                                       pc               |-> "updateDoc",
                                       selectedRequest  |-> selectedRequest[d],
                                       firestoreDate    |-> CopyDate(date[d]),
                                       selectedTimeSlot |-> selectedTimeSlot[d],
                                       medication       |-> medication[d] ])
            /\ toast' = NoToast
    /\ UNCHANGED <<dbVars, currentUser, mounted, doctorVars, listVars, voiceVars>>
    /\ rejection' = NoRejection
    /\ UNCHANGED authVars

\* confirmScheduling up to its first await (page.tsx 584-606): the two
\* validations, then updateDoc is sent with the values of this render
confirmScheduling(d) ==
    /\ mounted[d] /\ ModalOpen(d)
    /\ IF selectedRequest[d] = NoRequest \/ date[d] = Null \/ Falsy(selectedTimeSlot[d])
       THEN /\ toast' = Toast(d, "Error: Please select a date and time slot.")
            /\ UNCHANGED calls
       ELSE IF Falsy(Trim(medication[d]))
       THEN /\ toast' = Toast(d, "Error: Please enter basic medication details.")
            /\ UNCHANGED calls
       ELSE /\ InFlight(d) < MaxDoctorCalls
            /\ calls' = Suspended(d, [ op               |-> "confirmScheduling",
                                       pc               |-> "updateDoc",
                                       selectedRequest  |-> selectedRequest[d],
                                       firestoreDate    |-> CopyDate(date[d]),
                                       selectedTimeSlot |-> selectedTimeSlot[d],
                                       medication       |-> medication[d] ])
            /\ toast' = NoToast
    /\ UNCHANGED <<dbVars, currentUser, mounted, doctorVars, listVars, voiceVars>>
    /\ rejection' = NoRejection
    /\ UNCHANGED authVars

\* ConfirmUpdateDone with updateDoc not awaited: addDoc is sent whether the
\* update succeeds or not
ConfirmUpdateDoneUnawaited(d, call, ok) ==
    /\ call \in CallsOf(d)
    /\ call.op = "confirmScheduling" /\ call.pc = "updateDoc"
    /\ requests' = IF ok THEN UpdateDoc(requests, call.selectedRequest.id, ScheduleFields(call))
                   ELSE requests
    /\ calls' = Moved(d, call, [call EXCEPT !.pc = "addDoc"])
    /\ toast' = NoToast
    /\ UNCHANGED <<appointments, apptOf, currentUser, mounted, doctorVars, listVars, voiceVars>>
    /\ rejection' = IF ok THEN NoRejection ELSE Rejected(d, "updateDoc", FALSE)
    /\ UNCHANGED authVars

\* await updateDoc(requestRef, ...) returns, and addDoc is sent (page.tsx
\* 606-623); or it rejects and the catch block runs (651-657)
ConfirmUpdateDone(d, call, ok) ==
    /\ call \in CallsOf(d)
    /\ call.op = "confirmScheduling" /\ call.pc = "updateDoc"
    /\ IF ok
       THEN /\ requests' = UpdateDoc(requests, call.selectedRequest.id, ScheduleFields(call))
            /\ calls' = Moved(d, call, [call EXCEPT !.pc = "addDoc"])
            /\ toast' = NoToast
       ELSE /\ calls' = Finished(d, call)
            /\ toast' = Toast(d, "Error: Failed to schedule appointment.")
            /\ UNCHANGED requests
    /\ UNCHANGED <<appointments, apptOf, currentUser, mounted, doctorVars, listVars, voiceVars>>
    /\ rejection' = IF ok THEN NoRejection ELSE Rejected(d, "updateDoc", TRUE)
    /\ UNCHANGED authVars

\* await addDoc(collection(db, 'appointments'), ...) returns: the success
\* toast, the selection is reset and the refresh is sent (page.tsx 623-642);
\* or it rejects and the catch block runs (651-657)
ConfirmAddDone(d, call, ok) ==
    /\ call \in CallsOf(d)
    /\ call.op = "confirmScheduling" /\ call.pc = "addDoc"
    /\ IF ok
       THEN /\ Len(appointments) < MaxAppointments
            /\ appointments' = AddDoc(appointments, NewAppointment(call, currentUser[d]))
            /\ apptOf' = Append(apptOf, call.selectedRequest.id)
            /\ toast' = Toast(d, "Success: Appointment scheduled")
            /\ showCalendar' = [showCalendar EXCEPT ![d] = FALSE]
            /\ selectedTimeSlot' = [selectedTimeSlot EXCEPT ![d] = Null]
            /\ date' = [date EXCEPT ![d] = Null]
            /\ selectedRequest' = [selectedRequest EXCEPT ![d] = NoRequest]
            /\ medication' = [medication EXCEPT ![d] = ""]
            /\ calls' = Moved(d, call, [call EXCEPT !.pc = "getDocs"])
       ELSE /\ calls' = Finished(d, call)
            /\ toast' = Toast(d, "Error: Failed to schedule appointment.")
            /\ UNCHANGED <<appointments, apptOf, showCalendar, selectedTimeSlot, date,
                           selectedRequest, medication>>
    /\ UNCHANGED <<requests, currentUser, mounted, docRequests, listVars, voiceVars>>
    /\ rejection' = IF ok THEN NoRejection ELSE Rejected(d, "addDoc", TRUE)
    /\ UNCHANGED authVars

\* the refresh's getDocs returns (page.tsx 642-649) or rejects (651-657)
ConfirmRefreshDone(d, call, ok) ==
    /\ call \in CallsOf(d)
    /\ call.op = "confirmScheduling" /\ call.pc = "getDocs"
    /\ calls' = Finished(d, call)
    /\ IF ok
       THEN /\ docRequests' = [docRequests EXCEPT ![d] = DoctorRefreshResult(requests)]
            /\ toast' = NoToast
       ELSE /\ toast' = Toast(d, "Error: Failed to schedule appointment.")
            /\ UNCHANGED docRequests
    /\ UNCHANGED <<dbVars, currentUser, mounted, selectedRequest, showCalendar, date,
                   selectedTimeSlot, medication, listVars, voiceVars>>
    /\ rejection' = IF ok THEN NoRejection ELSE Rejected(d, "getDocs", TRUE)
    /\ UNCHANGED authVars

\* FlagFields with the symptoms cleared for the patient to enter them again
FlagFieldsClearingSymptoms == [flaggedForReview |-> JsTrue, symptoms |-> ""]

\* the field handleFlagForReview writes (page.tsx 663)
FlagFields == [flaggedForReview |-> JsTrue]

\* handleFlagForReview up to its await (page.tsx 660-663), from the Flag for
\* review button of a listed request
handleFlagForReview(d, request) ==
    /\ mounted[d] /\ ~ModalOpen(d)
    /\ \E k \in 1..Len(docRequests[d]) : docRequests[d][k] = request
    /\ InFlight(d) < MaxDoctorCalls
    /\ calls' = Suspended(d, [op |-> "handleFlagForReview", pc |-> "updateDoc",
                              request |-> request])
    /\ toast' = NoToast
    /\ UNCHANGED <<dbVars, currentUser, mounted, doctorVars, listVars, voiceVars>>
    /\ rejection' = NoRejection
    /\ UNCHANGED authVars

\* await updateDoc(requestRef, { flaggedForReview: true }) returns and the
\* refresh is sent (page.tsx 663-673), or it rejects (681-687)
FlagUpdateDone(d, call, ok) ==
    /\ call \in CallsOf(d)
    /\ call.op = "handleFlagForReview" /\ call.pc = "updateDoc"
    /\ IF ok
       THEN /\ requests' = UpdateDoc(requests, call.request.id, FlagFields)
            /\ toast' = Toast(d, "Flagged for Review")
            /\ calls' = Moved(d, call, [call EXCEPT !.pc = "getDocs"])
       ELSE /\ calls' = Finished(d, call)
            /\ toast' = Toast(d, "Error: Failed to flag for review.")
            /\ UNCHANGED requests
    /\ UNCHANGED <<appointments, apptOf, currentUser, mounted, doctorVars, listVars, voiceVars>>
    /\ rejection' = IF ok THEN NoRejection ELSE Rejected(d, "updateDoc", TRUE)
    /\ UNCHANGED authVars

\* the refresh's getDocs returns (page.tsx 673-680) or rejects (681-687)
FlagRefreshDone(d, call, ok) ==
    /\ call \in CallsOf(d)
    /\ call.op = "handleFlagForReview" /\ call.pc = "getDocs"
    /\ calls' = Finished(d, call)
    /\ IF ok
       THEN /\ docRequests' = [docRequests EXCEPT ![d] = DoctorRefreshResult(requests)]
            /\ toast' = NoToast
       ELSE /\ toast' = Toast(d, "Error: Failed to flag for review.")
            /\ UNCHANGED docRequests
    /\ UNCHANGED <<dbVars, currentUser, mounted, selectedRequest, showCalendar, date,
                   selectedTimeSlot, medication, listVars, voiceVars>>
    /\ rejection' = IF ok THEN NoRejection ELSE Rejected(d, "getDocs", TRUE)
    /\ UNCHANGED authVars

----------------------------------------------------------------------------
(* PatientWelcomePage: the request list and FlaggedReviewResubmission       *)
(* (page.tsx 355-383, 454-482, 861-916)                                     *)

\* the requests for which a FlaggedReviewResubmission is rendered (page.tsx 475)
ShownForms(list) ==
    { list[k].id : k \in { j \in 1..Len(list) :
                            FlagSet(list[j].flaggedForReview) /\ list[j].status = "pending" } }

Listed(list, id) == CHOOSE r \in { list[k] : k \in 1..Len(list) } : r.id = id

\* useState(request.symptoms || ''), useState(''), useState(false) (page.tsx 862-864)
NewForm(request) ==
    [ symptoms |-> IF Falsy(request.symptoms) THEN "" ELSE request.symptoms,
      comment  |-> "",
      loading  |-> FALSE ]

\* the components React keeps (same key), creates and drops when the list changes
Rerendered(forms, list) ==
    [ id \in ShownForms(list) |->
        IF id \in DOMAIN forms THEN forms[id] ELSE NewForm(Listed(list, id)) ]

NoForms == [id \in {} |-> NewForm([symptoms |-> ""])]

\* fetchAppointmentRequests up to its await (page.tsx 356-364): the bag of
\* calls after it ran
FetchStarted(bag, user) ==
    IF user = Null THEN bag
    ELSE bag (+) SetToBag({[op |-> "fetchAppointmentRequests", pc |-> "getDocs", uid |-> user]})

\* getDocs returns (page.tsx 364-375) or rejects (376-378: logged, no toast)
PatientFetchDone(call, ok) ==
    /\ call \in CallsOf(Patient)
    /\ call.op = "fetchAppointmentRequests" /\ call.pc = "getDocs"
    /\ calls' = Finished(Patient, call)
    /\ IF ok
       THEN /\ patRequests' = PatientFetchResult(requests, call.uid)
            /\ resubmission' = Rerendered(resubmission, patRequests')
       ELSE UNCHANGED <<patRequests, resubmission>>
    /\ toast' = NoToast
    /\ UNCHANGED <<dbVars, currentUser, mounted, doctorVars, voiceVars>>
    /\ rejection' = IF ok THEN NoRejection ELSE Rejected(Patient, "getDocs", TRUE)
    /\ UNCHANGED authVars

\* the Symptoms textarea's onChange (page.tsx 899)
SymptomsChange(id, text) ==
    /\ mounted[Patient] /\ id \in DOMAIN resubmission
    /\ resubmission' = [resubmission EXCEPT ![id].symptoms = text]
    /\ toast' = NoToast
    /\ UNCHANGED <<dbVars, clientVars, doctorVars, patRequests, voiceVars>>
    /\ rejection' = NoRejection
    /\ UNCHANGED authVars

\* the Comments textarea's onChange (page.tsx 908)
CommentChange(id, text) ==
    /\ mounted[Patient] /\ id \in DOMAIN resubmission
    /\ resubmission' = [resubmission EXCEPT ![id].comment = text]
    /\ toast' = NoToast
    /\ UNCHANGED <<dbVars, clientVars, doctorVars, patRequests, voiceVars>>
    /\ rejection' = NoRejection
    /\ UNCHANGED authVars

\* the Resubmit Symptoms button is not disabled (page.tsx 911)
ResubmitEnabled(id) ==
    ~resubmission[id].loading /\ ~Falsy(Trim(resubmission[id].symptoms))

\* ResubmitFields without the flag being cleared
ResubmitFieldsKeepFlag(call) ==
    [ symptoms            |-> call.symptoms,
      resubmissionComment |-> call.comment ]

\* ResubmitFields writing the request back as a new one, status included
ResubmitFieldsAsNew(call) ==
    [ symptoms            |-> call.symptoms,
      status              |-> "pending",
      flaggedForReview    |-> JsFalse,
      resubmissionComment |-> call.comment ]

\* the fields handleResubmit writes (page.tsx 870-874)
ResubmitFields(call) ==
    [ symptoms            |-> call.symptoms,
      flaggedForReview    |-> JsFalse,
      resubmissionComment |-> call.comment ]

\* handleResubmit up to its await (page.tsx 866-870)
handleResubmit(id) ==
    /\ mounted[Patient] /\ id \in DOMAIN resubmission
    /\ ResubmitEnabled(id)
    /\ InFlight(Patient) < MaxPatientCalls
    /\ resubmission' = [resubmission EXCEPT ![id].loading = TRUE]
    /\ calls' = Suspended(Patient, [ op       |-> "handleResubmit",
                                     pc       |-> "updateDoc",
                                     id       |-> Listed(patRequests, id).id,
                                     symptoms |-> resubmission[id].symptoms,
                                     comment  |-> resubmission[id].comment ])
    /\ toast' = NoToast
    /\ UNCHANGED <<dbVars, currentUser, mounted, doctorVars, patRequests, voiceVars>>
    /\ rejection' = NoRejection
    /\ UNCHANGED authVars

\* setLoading(false) of a component that may be gone by now
LoadingCleared(forms, id) ==
    IF id \in DOMAIN forms THEN [forms EXCEPT ![id].loading = FALSE] ELSE forms

\* await updateDoc returns: toast, onResubmitted() starts a fetch, finally
\* (page.tsx 870-879, 885-887); or it rejects (880-887)
ResubmitUpdateDone(call, ok) ==
    /\ call \in CallsOf(Patient)
    /\ call.op = "handleResubmit" /\ call.pc = "updateDoc"
    /\ IF ok
       THEN /\ requests' = UpdateDoc(requests, call.id, ResubmitFields(call))
            /\ toast' = Toast(Patient, "Resubmitted")
            /\ calls' = [calls EXCEPT ![Patient] =
                            FetchStarted(@ (-) SetToBag({call}), currentUser[Patient])]
       ELSE /\ toast' = Toast(Patient, "Error: Failed to resubmit symptoms.")
            /\ calls' = Finished(Patient, call)
            /\ UNCHANGED requests
    /\ resubmission' = LoadingCleared(resubmission, call.id)
    /\ UNCHANGED <<appointments, apptOf, currentUser, mounted, doctorVars, patRequests,
                   voiceVars>>
    /\ rejection' = IF ok THEN NoRejection ELSE Rejected(Patient, "updateDoc", TRUE)
    /\ UNCHANGED authVars

----------------------------------------------------------------------------
(* PatientWelcomePage: submitting the report (page.tsx 259-308, 437-452) *)

NoReport == [transcript |-> Null, diagnosis |-> Null]

\* the Submit Appointment Request button is rendered (page.tsx 438)
SubmitShown == ~isProcessing /\ reportReady

\* handleContinue up to its await (page.tsx 259-289)
handleContinue ==
    /\ mounted[Patient] /\ SubmitShown
    /\ IF Falsy(medicalReport.transcript) \/ Falsy(medicalReport.diagnosis)
       THEN /\ toast' = Toast(Patient, "Error: Please complete the voice recording and processing first.")
            /\ UNCHANGED calls
       ELSE IF currentUser[Patient] = Null
       THEN /\ toast' = Toast(Patient, "Error: Please sign in to submit your request.")
            /\ UNCHANGED calls
       ELSE /\ InFlight(Patient) < MaxPatientCalls
            /\ calls' = Suspended(Patient,
                            [ op |-> "handleContinue", pc |-> "addDoc",
                              appointmentRequest |->
                                  RequestDoc(currentUser[Patient],
                                             DisplayName(currentUser[Patient]),
                                             medicalReport) ])
            /\ toast' = NoToast
    /\ UNCHANGED <<dbVars, currentUser, mounted, doctorVars, listVars, voiceVars>>
    /\ rejection' = NoRejection
    /\ UNCHANGED authVars

\* await addDoc returns: toast and reset (page.tsx 289-299), or it rejects (301-307)
ContinueAddDone(call, ok) ==
    /\ call \in CallsOf(Patient)
    /\ call.op = "handleContinue" /\ call.pc = "addDoc"
    /\ calls' = Finished(Patient, call)
    /\ IF ok
       THEN /\ Len(requests) < MaxRequests
            /\ requests' = AddDoc(requests, call.appointmentRequest)
            /\ toast' = Toast(Patient, "Success: Your symptoms and diagnosis have been recorded.")
            /\ medicalReport' = NoReport
            /\ isDialogOpen' = FALSE
            /\ reportReady' = FALSE
       ELSE /\ toast' = Toast(Patient, "Error: Failed to submit request. Please try again.")
            /\ UNCHANGED <<requests, medicalReport, isDialogOpen, reportReady>>
    /\ UNCHANGED <<appointments, apptOf, currentUser, mounted, doctorVars, listVars,
                   isProcessing, isRecording, audioData, stream, mediaRecorder, micTracks>>
    /\ rejection' = IF ok THEN NoRejection ELSE Rejected(Patient, "addDoc", TRUE)
    /\ UNCHANGED authVars

----------------------------------------------------------------------------
(* PatientWelcomePage: microphone, recorder and the voice pipeline          *)
(* (page.tsx 58-256, 310-353)                                               *)

NoRecorder == [state |-> "none", stopEvents |-> 0]      \* mediaRecorder = null

\* The `stream` that the cleanup of the mount effect reads (page.tsx 136-140):
\* the effect has no dependencies (141), so its closure holds the value
\* `stream` had in the first render, useState's initial null (70).
CleanupStream == Null

\* what Whisper returns for a recording (page.tsx 219-222): silence transcribes to ''
Transcribe(audio) == IF audio = "silence" THEN "" ELSE "text of " \o audio

\* what the chat completion returns for a transcript, trimmed (page.tsx 245-251)
Diagnose(transcript) == Trim(" diagnosis of " \o transcript \o " ")

\* The page is mounted: the useState initial values (page.tsx 59-70); the
\* mount effects start initRecorder (73-133) and fetchAppointmentRequests
\* (381-383); processAudio returns at once, audioData being null (312).
PatientMount ==
    /\ ~mounted[Patient] /\ InFlight(Patient) = 0
    /\ mounted' = [mounted EXCEPT ![Patient] = TRUE]
    /\ calls' = [calls EXCEPT ![Patient] =
                    FetchStarted(@ (+) SetToBag({[op |-> "initRecorder", pc |-> "getUserMedia"]}),
                                 currentUser[Patient])]
    /\ patRequests' = <<>>
    /\ resubmission' = NoForms
    /\ medicalReport' = NoReport
    /\ reportReady' = FALSE
    /\ isProcessing' = FALSE
    /\ isDialogOpen' = FALSE
    /\ isRecording' = FALSE
    /\ audioData' = Null
    /\ stream' = Null
    /\ mediaRecorder' = NoRecorder
    /\ toast' = NoToast
    /\ UNCHANGED <<dbVars, currentUser, doctorVars, micTracks>>
    /\ rejection' = NoRejection
    /\ UNCHANGED authVars

\* The page is torn down (navigation away), here once nothing it started is
\* pending: the effect cleanup runs (page.tsx 136-140) and the component's
\* state is gone.
PatientUnmount ==
    /\ mounted[Patient] /\ InFlight(Patient) = 0
    /\ mounted' = [mounted EXCEPT ![Patient] = FALSE]
    /\ micTracks' = IF CleanupStream # Null THEN "stopped" ELSE micTracks
    /\ patRequests' = <<>>
    /\ resubmission' = NoForms
    /\ medicalReport' = NoReport
    /\ reportReady' = FALSE
    /\ isProcessing' = FALSE
    /\ isDialogOpen' = FALSE
    /\ isRecording' = FALSE
    /\ audioData' = Null
    /\ stream' = Null
    /\ mediaRecorder' = NoRecorder
    /\ toast' = NoToast
    /\ UNCHANGED <<dbVars, currentUser, calls, doctorVars>>
    /\ rejection' = NoRejection
    /\ UNCHANGED authVars

\* await getUserMedia returns: setStream, the recorder is created and set
\* (page.tsx 77-122); or it rejects (124-130)
InitRecorderDone(call, ok) ==
    /\ call \in CallsOf(Patient)
    /\ call.op = "initRecorder" /\ call.pc = "getUserMedia"
    /\ calls' = Finished(Patient, call)
    /\ IF ok
       THEN /\ micTracks' = "live"
            /\ stream' = "audioStream"
            /\ mediaRecorder' = [state |-> "inactive", stopEvents |-> 0]
            /\ toast' = NoToast
       ELSE /\ toast' = Toast(Patient, "Error: Failed to access microphone.")
            /\ UNCHANGED <<micTracks, stream, mediaRecorder>>
    /\ UNCHANGED <<dbVars, currentUser, mounted, doctorVars, listVars, medicalReport,
                   reportReady, isProcessing, isDialogOpen, isRecording, audioData>>
    /\ rejection' = IF ok THEN NoRejection ELSE Rejected(Patient, "getUserMedia", TRUE)
    /\ UNCHANGED authVars

\* the record button is not disabled (page.tsx 400)
RecordEnabled == mediaRecorder # NoRecorder /\ ~isProcessing

\* startRecording, from mousedown / touchstart (page.tsx 143-173, 191-202).
\* stop() of a running recording queues its stop event; setAudioData(null)
\* makes the processAudio effect run and return at once (312).
startRecording ==
    /\ mounted[Patient] /\ RecordEnabled
    /\ IF mediaRecorder = NoRecorder \/ stream = Null
       THEN /\ toast' = Toast(Patient, "Error: Recording device not ready.")
            /\ UNCHANGED <<audioData, isRecording, mediaRecorder>>
       ELSE /\ mediaRecorder.state = "recording" => mediaRecorder.stopEvents < MaxStopEvents
            /\ audioData' = Null
            /\ isRecording' = TRUE
            /\ mediaRecorder' =
                   [ state      |-> "recording",
                     stopEvents |-> IF mediaRecorder.state = "recording"
                                    THEN mediaRecorder.stopEvents + 1
                                    ELSE mediaRecorder.stopEvents ]
            /\ toast' = NoToast
    /\ UNCHANGED <<dbVars, currentUser, mounted, calls, doctorVars, listVars, medicalReport,
                   reportReady, isProcessing, isDialogOpen, stream, micTracks>>
    /\ rejection' = NoRejection
    /\ UNCHANGED authVars

\* stopRecording, from mouseup / touchend (page.tsx 175-189, 195-207)
stopRecording ==
    /\ mounted[Patient] /\ RecordEnabled
    /\ IF mediaRecorder.state = "recording"
       THEN /\ mediaRecorder.stopEvents < MaxStopEvents
            /\ mediaRecorder' = [state |-> "inactive",
                                 stopEvents |-> mediaRecorder.stopEvents + 1]
            /\ isRecording' = FALSE
            /\ isDialogOpen' = TRUE
       ELSE UNCHANGED <<mediaRecorder, isRecording, isDialogOpen>>
    /\ toast' = NoToast
    /\ UNCHANGED <<dbVars, clientVars, doctorVars, listVars, medicalReport, reportReady,
                   isProcessing, audioData, stream, micTracks>>
    /\ rejection' = NoRejection
    /\ UNCHANGED authVars

\* recorder.onstop (page.tsx 101-112) delivers the recording `audio`; the
\* new audioData makes the processAudio effect run up to its first await
\* (310-322).
RecorderStop(audio) ==
    /\ mounted[Patient] /\ mediaRecorder.stopEvents > 0
    /\ InFlight(Patient) < MaxPatientCalls
    /\ mediaRecorder' = [mediaRecorder EXCEPT !.stopEvents = @ - 1]
    /\ isRecording' = FALSE
    /\ audioData' = audio
    /\ isProcessing' = TRUE
    /\ toast' = Toast(Patient, "Processing: Transcribing your recording...")
    /\ calls' = Suspended(Patient, [op |-> "processAudio", pc |-> "transcribeAudio",
                                    audioData |-> audio, transcript |-> Null])
    /\ UNCHANGED <<dbVars, currentUser, mounted, doctorVars, listVars, medicalReport,
                   reportReady, isDialogOpen, stream, micTracks>>
    /\ rejection' = NoRejection
    /\ UNCHANGED authVars

\* TranscribeDone with the failure swallowed: the toast is raised and the
\* run goes on to the diagnosis, without a transcript
TranscribeDoneSwallowed(call, ok) ==
    /\ call \in CallsOf(Patient)
    /\ call.op = "processAudio" /\ call.pc = "transcribeAudio"
    /\ toast' = IF ok THEN Toast(Patient, "Processing: Generating diagnosis...")
                ELSE Toast(Patient, "Error: Failed to process your recording.")
    /\ calls' = Moved(Patient, call,
                      [call EXCEPT !.pc = "getDiagnosisFromTranscript",
                                   !.transcript = IF ok THEN Transcribe(call.audioData)
                                                  ELSE Null])
    /\ UNCHANGED <<dbVars, currentUser, mounted, doctorVars, listVars, medicalReport,
                   reportReady, isProcessing, isDialogOpen, isRecording, audioData, stream,
                   mediaRecorder, micTracks>>
    /\ rejection' = IF ok THEN NoRejection ELSE Rejected(Patient, "transcribeAudio", TRUE)
    /\ UNCHANGED authVars

\* await transcribeAudio(audioData) returns and the diagnosis is requested
\* (page.tsx 322-330); or it throws: catch and finally (340-349)
TranscribeDone(call, ok) ==
    /\ call \in CallsOf(Patient)
    /\ call.op = "processAudio" /\ call.pc = "transcribeAudio"
    /\ IF ok
       THEN /\ toast' = Toast(Patient, "Processing: Generating diagnosis...")
            /\ calls' = Moved(Patient, call,
                              [call EXCEPT !.pc = "getDiagnosisFromTranscript",
                                           !.transcript = Transcribe(call.audioData)])
            /\ UNCHANGED isProcessing
       ELSE /\ toast' = Toast(Patient, "Error: Failed to process your recording.")
            /\ calls' = Finished(Patient, call)
            /\ isProcessing' = FALSE
    /\ UNCHANGED <<dbVars, currentUser, mounted, doctorVars, listVars, medicalReport,
                   reportReady, isDialogOpen, isRecording, audioData, stream,
                   mediaRecorder, micTracks>>
    /\ rejection' = IF ok THEN NoRejection ELSE Rejected(Patient, "transcribeAudio", TRUE)
    /\ UNCHANGED authVars

\* DiagnoseDone with the report set in the finally block, whatever happened
DiagnoseDoneReportAnyway(call, ok) ==
    /\ call \in CallsOf(Patient)
    /\ call.op = "processAudio" /\ call.pc = "getDiagnosisFromTranscript"
    /\ calls' = Finished(Patient, call)
    /\ isProcessing' = FALSE
    /\ medicalReport' = [transcript |-> call.transcript,
                         diagnosis  |-> IF ok THEN Diagnose(call.transcript) ELSE Null]
    /\ reportReady' = TRUE
    /\ toast' = IF ok
                THEN Toast(Patient, "Complete: Your recording has been processed successfully.")
                ELSE Toast(Patient, "Error: Failed to process your recording.")
    /\ UNCHANGED <<dbVars, currentUser, mounted, doctorVars, listVars, isDialogOpen,
                   isRecording, audioData, stream, mediaRecorder, micTracks>>
    /\ rejection' = IF ok THEN NoRejection
                    ELSE Rejected(Patient, "getDiagnosisFromTranscript", TRUE)
    /\ UNCHANGED authVars

\* await getDiagnosisFromTranscript(transcript) returns: the report is set
\* (page.tsx 330-339, 347-349); or it throws: catch and finally (340-349)
DiagnoseDone(call, ok) ==
    /\ call \in CallsOf(Patient)
    /\ call.op = "processAudio" /\ call.pc = "getDiagnosisFromTranscript"
    /\ calls' = Finished(Patient, call)
    /\ isProcessing' = FALSE
    /\ IF ok
       THEN /\ medicalReport' = [transcript |-> call.transcript,
                                 diagnosis  |-> Diagnose(call.transcript)]
            /\ reportReady' = TRUE
            /\ toast' = Toast(Patient, "Complete: Your recording has been processed successfully.")
       ELSE /\ toast' = Toast(Patient, "Error: Failed to process your recording.")
            /\ UNCHANGED <<medicalReport, reportReady>>
    /\ UNCHANGED <<dbVars, currentUser, mounted, doctorVars, listVars, isDialogOpen,
                   isRecording, audioData, stream, mediaRecorder, micTracks>>
    /\ rejection' = IF ok THEN NoRejection ELSE Rejected(Patient, "getDiagnosisFromTranscript", TRUE)
    /\ UNCHANGED authVars

\* Firebase Auth changes the client's auth.currentUser: the session is
\* restored after the page loaded, or the user signs out elsewhere
AuthStateChange(c, user) ==
    /\ currentUser[c] # user
    /\ currentUser' = [currentUser EXCEPT ![c] = user]
    /\ toast' = NoToast
    /\ UNCHANGED <<dbVars, mounted, calls, doctorVars, listVars, voiceVars>>
    /\ rejection' = NoRejection
    /\ UNCHANGED authVars

----------------------------------------------------------------------------
(* AuthForm (AuthForm.tsx 44-115), WelcomePage (page.tsx 918-945) and the   *)
(* Navbar's logout (Navbar.tsx 41-48), in the browser of client Patient     *)

\* the uid Firebase Auth gives the k-th account the form creates
UidOf(k) == "uid" \o ToString(k)

\* the account registered under an email: one of the clients' accounts, or
\* one the form created; Null when there is none
AccountOf(email) ==
    IF \E u \in Clients : u \o "@example.org" = email
    THEN CHOOSE u \in Clients : u \o "@example.org" = email
    ELSE IF \E k \in 1..Len(accounts) : accounts[k].email = email
    THEN accounts[CHOOSE k \in 1..Len(accounts) : accounts[k].email = email].uid
    ELSE Null

\* the document the sign-up branch stores (AuthForm.tsx 94-98)
UserDoc(values) ==
    [ username |-> IF Falsy(values.username) THEN Null ELSE values.username,
      email    |-> values.email,
      userType |-> values.userType ]

\* WelcomePage.fetchUserType up to its await (page.tsx 922-926): the bag of
\* calls after it ran
FetchUserTypeStarted(bag, user) ==
    IF user = Null THEN bag
    ELSE bag (+) SetToBag({[op |-> "fetchUserType", pc |-> "getDoc", uid |-> user]})

\* AuthFailed without the finally block
AuthFailedNoFinally(call) ==
    /\ calls' = Finished(Patient, call)
    /\ toast' = Toast(Patient, "Authentication Failed")
    /\ UNCHANGED isLoading

\* what the catch and finally blocks of onSubmit leave (AuthForm.tsx 106-114)
AuthFailed(call) ==
    /\ calls' = Finished(Patient, call)
    /\ toast' = Toast(Patient, "Authentication Failed")
    /\ isLoading' = FALSE

\* onSubmit up to its first await (AuthForm.tsx 58-81), called by
\* form.handleSubmit with values the schema accepts, from the submit button
\* (207: disabled while isLoading); configured: the Firebase environment
\* variables are set (62-69)
onSubmit(isLogin, values, configured) ==
    /\ route = IF isLogin THEN "/login" ELSE "/signup"
    /\ ~isLoading
    /\ IF ~configured
       THEN /\ toast' = Toast(Patient, "Authentication Failed")
            /\ UNCHANGED <<calls, isLoading>>
       ELSE /\ InFlight(Patient) < MaxPatientCalls
            /\ isLoading' = TRUE
            /\ calls' = Suspended(Patient,
                            [ op     |-> "onSubmit",
                              pc     |-> IF isLogin THEN "signInWithEmailAndPassword"
                                         ELSE "createUserWithEmailAndPassword",
                              values |-> values,
                              uid    |-> Null ])
            /\ toast' = NoToast
    /\ rejection' = NoRejection
    /\ UNCHANGED <<dbVars, currentUser, mounted, doctorVars, listVars, voiceVars,
                   accounts, users, route, userType>>
    /\ UNCHANGED navbar

\* await signInWithEmailAndPassword returns: toast, router.push("/welcome")
\* and the WelcomePage mounts (AuthForm.tsx 73-78, page.tsx 919-937); or it
\* rejects (106-114)
SignInDone(call, ok) ==
    /\ call \in CallsOf(Patient)
    /\ call.op = "onSubmit" /\ call.pc = "signInWithEmailAndPassword"
    /\ ok => AccountOf(call.values.email) # Null
    /\ IF ok
       THEN /\ currentUser' = [currentUser EXCEPT ![Patient] = AccountOf(call.values.email)]
            /\ toast' = Toast(Patient, "Login Successful")
            /\ route' = "/welcome"
            /\ userType' = Null
            /\ isLoading' = FALSE
            /\ calls' = [calls EXCEPT ![Patient] =
                            FetchUserTypeStarted(@ (-) SetToBag({call}),
                                                 AccountOf(call.values.email))]
       ELSE /\ AuthFailed(call)
            /\ UNCHANGED <<currentUser, route, userType>>
    /\ rejection' = IF ok THEN NoRejection
                    ELSE Rejected(Patient, "signInWithEmailAndPassword", TRUE)
    /\ UNCHANGED <<dbVars, mounted, doctorVars, listVars, voiceVars, accounts, users>>
    /\ UNCHANGED navbar

\* await createUserWithEmailAndPassword returns: the account exists and is
\* signed in, and updateProfile (with a username) or setDoc is sent
\* (AuthForm.tsx 81-94); or it rejects (106-114)
CreateUserDone(call, ok) ==
    /\ call \in CallsOf(Patient)
    /\ call.op = "onSubmit" /\ call.pc = "createUserWithEmailAndPassword"
    /\ ok => AccountOf(call.values.email) = Null
    /\ IF ok
       THEN /\ accounts' = Append(accounts, [ uid         |-> UidOf(Len(accounts) + 1),
                                             email       |-> call.values.email,
                                             displayName |-> Null ])
            /\ currentUser' = [currentUser EXCEPT ![Patient] = UidOf(Len(accounts) + 1)]
            /\ calls' = Moved(Patient, call,
                              [call EXCEPT !.pc  = IF Falsy(call.values.username)
                                                   THEN "setDoc" ELSE "updateProfile",
                                           !.uid = UidOf(Len(accounts) + 1)])
            /\ toast' = NoToast
            /\ UNCHANGED isLoading
       ELSE /\ AuthFailed(call)
            /\ UNCHANGED <<accounts, currentUser>>
    /\ rejection' = IF ok THEN NoRejection
                    ELSE Rejected(Patient, "createUserWithEmailAndPassword", TRUE)
    /\ UNCHANGED <<dbVars, mounted, doctorVars, listVars, voiceVars, users, route, userType>>
    /\ UNCHANGED navbar

\* await updateProfile returns and setDoc is sent (AuthForm.tsx 86-94), or it
\* rejects (106-114)
UpdateProfileDone(call, ok) ==
    /\ call \in CallsOf(Patient)
    /\ call.op = "onSubmit" /\ call.pc = "updateProfile"
    /\ IF ok
       THEN /\ accounts' = [k \in 1..Len(accounts) |->
                               IF accounts[k].uid = call.uid
                               THEN [accounts[k] EXCEPT !.displayName = call.values.username]
                               ELSE accounts[k]]
            /\ calls' = Moved(Patient, call, [call EXCEPT !.pc = "setDoc"])
            /\ toast' = NoToast
            /\ UNCHANGED isLoading
       ELSE /\ AuthFailed(call)
            /\ UNCHANGED accounts
    /\ rejection' = IF ok THEN NoRejection ELSE Rejected(Patient, "updateProfile", TRUE)
    /\ UNCHANGED <<dbVars, currentUser, mounted, doctorVars, listVars, voiceVars, users,
                   route, userType>>
    /\ UNCHANGED navbar

\* setDoc(doc(usersCollection, uid), data): the document under that id is
\* created or replaced
SetDoc(store, id, data) == (id :> data) @@ store

\* await setDoc returns: toast and router.push("/login"), where a new AuthForm
\* mounts (AuthForm.tsx 94-104); or it rejects (106-114)
SetDocDone(call, ok) ==
    /\ call \in CallsOf(Patient)
    /\ call.op = "onSubmit" /\ call.pc = "setDoc"
    /\ IF ok
       THEN /\ users' = SetDoc(users, call.uid, UserDoc(call.values))
            /\ calls' = Finished(Patient, call)
            /\ toast' = Toast(Patient, "Signup Successful")
            /\ route' = "/login"
            /\ isLoading' = FALSE
       ELSE /\ AuthFailed(call)
            /\ UNCHANGED <<users, route>>
    /\ rejection' = IF ok THEN NoRejection ELSE Rejected(Patient, "setDoc", TRUE)
    /\ UNCHANGED <<dbVars, currentUser, mounted, doctorVars, listVars, voiceVars, accounts,
                   userType>>
    /\ UNCHANGED navbar

\* The user opens another page (a Link, or the address bar), here once nothing
\* the old page started is pending: the new page's components mount with
\* their initial state; on /welcome fetchUserType starts (page.tsx 919-937).
Navigate(to) ==
    /\ route # to /\ InFlight(Patient) = 0
    /\ route' = to
    /\ isLoading' = FALSE
    /\ userType' = Null
    /\ calls' = [calls EXCEPT ![Patient] =
                    IF to = "/welcome" THEN FetchUserTypeStarted(@, currentUser[Patient])
                    ELSE @]
    /\ toast' = NoToast
    /\ rejection' = NoRejection
    /\ UNCHANGED <<dbVars, currentUser, mounted, doctorVars, listVars, voiceVars, accounts,
                   users>>
    /\ UNCHANGED navbar

\* await getDoc(userDocRef) returns (page.tsx 926-932); or it rejects, in an
\* async function without a try block, called without a catch (922-936)
FetchUserTypeDone(call, ok) ==
    /\ call \in CallsOf(Patient)
    /\ call.op = "fetchUserType" /\ call.pc = "getDoc"
    /\ calls' = Finished(Patient, call)
    /\ IF ok
       THEN userType' = IF call.uid \in DOMAIN users /\ ~Falsy(users[call.uid].userType)
                        THEN users[call.uid].userType
                        ELSE Null
       ELSE UNCHANGED userType
    /\ toast' = NoToast
    /\ rejection' = IF ok THEN NoRejection ELSE Rejected(Patient, "getDoc", FALSE)
    /\ UNCHANGED <<dbVars, currentUser, mounted, doctorVars, listVars, voiceVars, accounts,
                   users, isLoading, route>>
    /\ UNCHANGED navbar

\* Navbar.handleLogout up to its await (Navbar.tsx 41-43), from the logout
\* button of a signed-in user
handleLogout ==
    /\ currentUser[Patient] # Null
    /\ InFlight(Patient) < MaxPatientCalls
    /\ calls' = Suspended(Patient, [op |-> "handleLogout", pc |-> "signOut"])
    /\ toast' = NoToast
    /\ rejection' = NoRejection
    /\ UNCHANGED <<dbVars, currentUser, mounted, doctorVars, listVars, voiceVars, authVars>>

\* await signOut(auth) returns and router.push('/login') (Navbar.tsx 43-44);
\* or it rejects: console.error (45-47)
LogoutDone(call, ok) ==
    /\ call \in CallsOf(Patient)
    /\ call.op = "handleLogout" /\ call.pc = "signOut"
    /\ calls' = Finished(Patient, call)
    /\ IF ok
       THEN /\ currentUser' = [currentUser EXCEPT ![Patient] = Null]
            /\ route' = "/login"
            /\ isLoading' = FALSE
            /\ userType' = Null
       ELSE UNCHANGED <<currentUser, route, isLoading, userType>>
    /\ toast' = NoToast
    /\ rejection' = IF ok THEN NoRejection ELSE Rejected(Patient, "signOut", TRUE)
    /\ UNCHANGED <<dbVars, mounted, doctorVars, listVars, voiceVars, accounts, users>>
    /\ UNCHANGED navbar

----------------------------------------------------------------------------
(* Home, the page at "/" (login/page.tsx 24-61), in the browser of client   *)
(* Patient                                                                  *)

\* Firebase Auth calls Home's listener with the signed-in user: the listener
\* up to its await (login/page.tsx 33-36).  It is called once per auth state.
HomeAuthStateChanged ==
    /\ route = "/"
    /\ currentUser[Patient] # Null
    /\ InFlight(Patient) = 0
    /\ calls' = Suspended(Patient, [ op  |-> "Home",
                                     pc  |-> "getDoc",
                                     uid |-> currentUser[Patient] ])
    /\ toast' = NoToast
    /\ rejection' = NoRejection
    /\ UNCHANGED <<dbVars, currentUser, mounted, doctorVars, listVars, voiceVars, authVars>>

\* await getDoc(userDocRef) returns: router.push('/welcome') for a patient
\* or a doctor, router.push('/login') without a document, and the page
\* pushed mounts (login/page.tsx 36-50, page.tsx 919-937); or it rejects, in
\* a listener without a try block
HomeGetDocDone(call, ok) ==
    /\ call \in CallsOf(Patient)
    /\ call.op = "Home" /\ call.pc = "getDoc"
    /\ IF ok /\ call.uid \notin DOMAIN users
       THEN /\ route' = "/login"
            /\ calls' = Finished(Patient, call)
       ELSE IF ok /\ users[call.uid].userType \in {"patient", "doctor"}
       THEN /\ route' = "/welcome"
            /\ calls' = [calls EXCEPT ![Patient] =
                            FetchUserTypeStarted(@ (-) SetToBag({call}),
                                                 currentUser[Patient])]
       ELSE /\ UNCHANGED route
            /\ calls' = Finished(Patient, call)
    /\ userType' = Null
    /\ isLoading' = FALSE
    /\ toast' = NoToast
    /\ rejection' = IF ok THEN NoRejection ELSE Rejected(Patient, "getDoc", FALSE)
    /\ UNCHANGED <<dbVars, currentUser, mounted, doctorVars, listVars, voiceVars,
                   accounts, users, navbar>>

----------------------------------------------------------------------------
(* Navbar's auth listener (Navbar.tsx 11-39), in the browser of client      *)
(* Patient.  The pages of src/app do not render the Navbar: its state moves *)
(* only where the listener is registered, in SpecNavbar                     *)

\* the useState initial values (Navbar.tsx 12-14)
NavbarInitial == [loggedIn |-> FALSE, username |-> Null, userType |-> Null]

\* the email of the account of a client
EmailOf(uid) == uid \o "@example.org"

\* email.split('@')[0]
LocalPart(email) ==
    IF \E k \in 1..Len(email) : SubSeq(email, k, k) = "@"
    THEN SubSeq(email, 1, (CHOOSE k \in 1..Len(email) :
                              /\ SubSeq(email, k, k) = "@"
                              /\ \A j \in 1..(k - 1) : SubSeq(email, j, j) # "@") - 1)
    ELSE email

\* user.displayName || user.email?.split('@')[0] || 'User' (Navbar.tsx 21)
NavbarUsername(uid) ==
    IF ~Falsy(DisplayName(uid)) THEN DisplayName(uid)
    ELSE IF ~Falsy(LocalPart(EmailOf(uid))) THEN LocalPart(EmailOf(uid))
    ELSE "User"

\* Firebase Auth changes the signed-in user and calls the listener with it:
\* the listener up to its await (Navbar.tsx 17-25), or all of it at a
\* sign-out (33-36)
NavbarAuthStateChanged(user) ==
    /\ currentUser[Patient] # user
    /\ currentUser' = [currentUser EXCEPT ![Patient] = user]
    /\ IF user # Null
       THEN /\ InFlight(Patient) < MaxPatientCalls
            /\ navbar' = [navbar EXCEPT !.loggedIn = TRUE,
                                        !.username = NavbarUsername(user)]
            /\ calls' = Suspended(Patient, [ op  |-> "onAuthStateChanged",
                                             pc  |-> "getDoc",
                                             uid |-> user ])
       ELSE /\ navbar' = [loggedIn |-> FALSE, username |-> Null, userType |-> Null]
            /\ UNCHANGED calls
    /\ toast' = NoToast
    /\ rejection' = NoRejection
    /\ UNCHANGED <<dbVars, mounted, doctorVars, listVars, voiceVars,
                   accounts, users, isLoading, route, userType>>

\* await getDoc(userDocRef) returns (Navbar.tsx 25-31); or it rejects, in a
\* listener without a try block
NavbarGetDocDone(call, ok) ==
    /\ call \in CallsOf(Patient)
    /\ call.op = "onAuthStateChanged" /\ call.pc = "getDoc"
    /\ calls' = Finished(Patient, call)
    /\ IF ok
       THEN navbar' = [navbar EXCEPT !.userType =
                          IF call.uid \in DOMAIN users /\ ~Falsy(users[call.uid].userType)
                          THEN users[call.uid].userType
                          ELSE Null]
       ELSE UNCHANGED navbar
    /\ toast' = NoToast
    /\ rejection' = IF ok THEN NoRejection ELSE Rejected(Patient, "getDoc", FALSE)
    /\ UNCHANGED <<dbVars, currentUser, mounted, doctorVars, listVars, voiceVars,
                   accounts, users, isLoading, route, userType>>

----------------------------------------------------------------------------
(* Inputs *)

PickedDay   == "2026-01-06T00:00"     \* a day picked in the calendar has no time of day
SpokenCough == "cough"                \* a recording

Outcomes == BOOLEAN      \* a backend call returns, or rejects

\* the report the pipeline produces for the recording "cough"
CoughReport ==
    [transcript |-> Transcribe(SpokenCough), diagnosis |-> Diagnose(Transcribe(SpokenCough))]

----------------------------------------------------------------------------
(* Initial states *)

\* the profile the sign-up form stored for the accounts of the clients
ProfileOf(uid) ==
    [ username |-> DisplayName(uid),
      email    |-> uid \o "@example.org",
      userType |-> IF uid \in Doctors THEN "doctor" ELSE "patient" ]

\* the three clients signed up before, and the welcome page is shown
SignedUp ==
    /\ rejection = NoRejection
    /\ accounts = <<>>
    /\ users = [u \in Clients |-> ProfileOf(u)]
    /\ isLoading = FALSE
    /\ route = "/welcome"
    /\ userType = "patient"
    /\ navbar = NavbarInitial

NoPageLoaded ==
    /\ currentUser = [c \in Clients |-> c]
    /\ mounted = [c \in Clients |-> FALSE]
    /\ calls = [c \in Clients |-> EmptyBag]
    /\ toast = NoToast
    /\ docRequests = [d \in Doctors |-> <<>>]
    /\ selectedRequest = [d \in Doctors |-> NoRequest]
    /\ showCalendar = [d \in Doctors |-> FALSE]
    /\ date = [d \in Doctors |-> Now]
    /\ selectedTimeSlot = [d \in Doctors |-> Null]
    /\ medication = [d \in Doctors |-> ""]
    /\ patRequests = <<>>
    /\ resubmission = NoForms
    /\ medicalReport = NoReport
    /\ reportReady = FALSE
    /\ isProcessing = FALSE
    /\ isDialogOpen = FALSE
    /\ isRecording = FALSE
    /\ audioData = Null
    /\ stream = Null
    /\ mediaRecorder = NoRecorder
    /\ micTracks = "none"
    /\ SignedUp

\* an empty database, every client signed in, no page loaded
InitVoice ==
    /\ requests = <<>>
    /\ appointments = <<>>
    /\ apptOf = <<>>
    /\ NoPageLoaded

\* the database after the patient submitted the report of one recording
\* (SpecVoice reaches it, see C8_Witness)
OneRequest ==
    /\ requests = <<RequestDoc(Patient, DisplayName(Patient), CoughReport)>>
    /\ appointments = <<>>
    /\ apptOf = <<>>

\* One request is stored and no page is loaded.
InitDoctors == OneRequest /\ NoPageLoaded

\* The patient's page is loaded: the microphone was granted (page.tsx
\* 77-122) and the mount effect's fetch (381-383) is in flight.  No doctor's
\* page is loaded.
PatientPageLoaded ==
    /\ currentUser = [c \in Clients |-> c]
    /\ mounted = [c \in Clients |-> c = Patient]
    /\ calls = [c \in Clients |-> IF c = Patient THEN FetchStarted(EmptyBag, Patient)
                                  ELSE EmptyBag]
    /\ toast = NoToast
    /\ docRequests = [d \in Doctors |-> <<>>]
    /\ selectedRequest = [d \in Doctors |-> NoRequest]
    /\ showCalendar = [d \in Doctors |-> FALSE]
    /\ date = [d \in Doctors |-> Now]
    /\ selectedTimeSlot = [d \in Doctors |-> Null]
    /\ medication = [d \in Doctors |-> ""]
    /\ patRequests = <<>>
    /\ resubmission = NoForms
    /\ medicalReport = NoReport
    /\ reportReady = FALSE
    /\ isProcessing = FALSE
    /\ isDialogOpen = FALSE
    /\ isRecording = FALSE
    /\ audioData = Null
    /\ stream = "audioStream"
    /\ mediaRecorder = [state |-> "inactive", stopEvents |-> 0]
    /\ micTracks = "live"
    /\ SignedUp

Init == OneRequest /\ PatientPageLoaded

\* the database after a doctor flagged the request (Spec reaches it: FlagUpdateDone)
OneFlaggedRequest ==
    /\ requests = UpdateDoc(<<RequestDoc(Patient, DisplayName(Patient), CoughReport)>>,
                            1, FlagFields)
    /\ appointments = <<>>
    /\ apptOf = <<>>

InitResubmit == OneFlaggedRequest /\ PatientPageLoaded

\* The patient's page shows the report of one recording: the pipeline has
\* run once on "cough" (page.tsx 310-353) and the mount effect's fetch has
\* returned; nothing is in flight (SpecVoice reaches it, see C14_Witness).
ReportShown ==
    /\ currentUser = [c \in Clients |-> c]
    /\ mounted = [c \in Clients |-> c = Patient]
    /\ calls = [c \in Clients |-> EmptyBag]
    /\ toast = Toast(Patient, "Complete: Your recording has been processed successfully.")
    /\ docRequests = [d \in Doctors |-> <<>>]
    /\ selectedRequest = [d \in Doctors |-> NoRequest]
    /\ showCalendar = [d \in Doctors |-> FALSE]
    /\ date = [d \in Doctors |-> Now]
    /\ selectedTimeSlot = [d \in Doctors |-> Null]
    /\ medication = [d \in Doctors |-> ""]
    /\ patRequests = <<>>
    /\ resubmission = NoForms
    /\ medicalReport = CoughReport
    /\ reportReady = TRUE
    /\ isProcessing = FALSE
    /\ isDialogOpen = TRUE
    /\ isRecording = FALSE
    /\ audioData = SpokenCough
    /\ stream = "audioStream"
    /\ mediaRecorder = [state |-> "inactive", stopEvents |-> 0]
    /\ micTracks = "live"
    /\ SignedUp

\* an empty database, and the patient's page shows the report of one recording
InitSubmit ==
    /\ requests = <<>>
    /\ appointments = <<>>
    /\ apptOf = <<>>
    /\ ReportShown

----------------------------------------------------------------------------
(* The steps of the clients, over the inputs given *)

DoctorStep(d, slots, medications) ==
    \/ DoctorMount(d)
    \/ \E call \in CallsOf(d), ok \in Outcomes : DoctorFetchDone(d, call, ok)
    \/ \E k \in 1..Len(docRequests[d]) : handleScheduleAppointment(d, docRequests[d][k])
    \/ \E slot \in slots : handleTimeSlotClick(d, slot)
    \/ \E text \in medications : MedicationChange(d, text)
    \/ CancelScheduling(d)
    \/ ConfirmEnabled(d) /\ confirmScheduling(d)
    \/ \E call \in CallsOf(d), ok \in Outcomes : ConfirmUpdateDone(d, call, ok)
    \/ \E call \in CallsOf(d), ok \in Outcomes : ConfirmAddDone(d, call, ok)
    \/ \E call \in CallsOf(d), ok \in Outcomes : ConfirmRefreshDone(d, call, ok)
    \/ \E k \in 1..Len(docRequests[d]) : handleFlagForReview(d, docRequests[d][k])
    \/ \E call \in CallsOf(d), ok \in Outcomes : FlagUpdateDone(d, call, ok)
    \/ \E call \in CallsOf(d), ok \in Outcomes : FlagRefreshDone(d, call, ok)

PatientListStep ==
    \/ \E call \in CallsOf(Patient), ok \in Outcomes : PatientFetchDone(call, ok)
    \/ \E id \in DOMAIN resubmission : handleResubmit(id)
    \/ \E call \in CallsOf(Patient), ok \in Outcomes : ResubmitUpdateDone(call, ok)

----------------------------------------------------------------------------
(* Spec: the life of one appointment request.  One doctor and the patient   *)
(* act on it concurrently; the doctor schedules for the day the page opened *)
(* with, the patient resubmits the form as it is.                           *)

Next ==
    \/ DoctorStep("drA", {availableTimeSlots[1]}, {" aspirin "})
    \/ PatientListStep

Spec == Init /\ [][Next]_vars

----------------------------------------------------------------------------
(* SpecDoctors: two doctors act on the request concurrently. *)

NextDoctors ==
    \E d \in Doctors : DoctorStep(d, {availableTimeSlots[1]}, {" aspirin "})

SpecDoctors == InitDoctors /\ [][NextDoctors]_vars

----------------------------------------------------------------------------
(* SpecSchedule: one doctor alone, with the inputs of the scheduling modal. *)

NextSchedule ==
    \/ DoctorStep("drA", {availableTimeSlots[1], availableTimeSlots[4]}, {" ", " aspirin "})
    \/ \E day \in {PickedDay, Null} : CalendarSelect("drA", day)

SpecSchedule == InitDoctors /\ [][NextSchedule]_vars

----------------------------------------------------------------------------
(* SpecResubmit: the patient alone with a request a doctor has flagged (a   *)
(* database Spec reaches), editing and resubmitting it.                     *)

NextResubmit ==
    \/ PatientListStep
    \/ \E id \in DOMAIN resubmission, text \in {"fever ", " "} : SymptomsChange(id, text)
    \/ \E id \in DOMAIN resubmission, text \in {"worse"} : CommentChange(id, text)

SpecResubmit == InitResubmit /\ [][NextResubmit]_vars

----------------------------------------------------------------------------
(* SpecVoice: the patient's page alone: microphone, recording, pipeline,    *)
(* submission.                                                              *)

NextVoice ==
    \/ PatientMount
    \/ PatientUnmount
    \/ \E user \in {Null, Patient} : AuthStateChange(Patient, user)
    \/ \E call \in CallsOf(Patient), ok \in Outcomes : InitRecorderDone(call, ok)
    \/ \E call \in CallsOf(Patient), ok \in Outcomes : PatientFetchDone(call, ok)
    \/ startRecording
    \/ stopRecording
    \/ \E audio \in {SpokenCough, "silence"} : RecorderStop(audio)
    \/ \E call \in CallsOf(Patient), ok \in Outcomes : TranscribeDone(call, ok)
    \/ \E call \in CallsOf(Patient), ok \in Outcomes : DiagnoseDone(call, ok)
    \/ handleContinue
    \/ \E call \in CallsOf(Patient), ok \in Outcomes : ContinueAddDone(call, ok)

SpecVoice == InitVoice /\ [][NextVoice]_vars

----------------------------------------------------------------------------
(* SpecAuth: the account holder's browser, signed out on the login page:    *)
(* signing up, logging in, the welcome page's role lookup, logging out.     *)

InitAuth ==
    /\ OneRequest
    /\ currentUser = [c \in Clients |-> IF c = Patient THEN Null ELSE c]
    /\ mounted = [c \in Clients |-> FALSE]
    /\ calls = [c \in Clients |-> EmptyBag]
    /\ toast = NoToast
    /\ rejection = NoRejection
    /\ docRequests = [d \in Doctors |-> <<>>]
    /\ selectedRequest = [d \in Doctors |-> NoRequest]
    /\ showCalendar = [d \in Doctors |-> FALSE]
    /\ date = [d \in Doctors |-> Now]
    /\ selectedTimeSlot = [d \in Doctors |-> Null]
    /\ medication = [d \in Doctors |-> ""]
    /\ patRequests = <<>>
    /\ resubmission = NoForms
    /\ medicalReport = NoReport
    /\ reportReady = FALSE
    /\ isProcessing = FALSE
    /\ isDialogOpen = FALSE
    /\ isRecording = FALSE
    /\ audioData = Null
    /\ stream = Null
    /\ mediaRecorder = NoRecorder
    /\ micTracks = "none"
    /\ accounts = <<>>
    /\ users = [u \in Clients |-> ProfileOf(u)]
    /\ isLoading = FALSE
    /\ route = "/login"
    /\ userType = Null
    /\ navbar = NavbarInitial

\* what the visitor types into the forms
SignUpValues ==
    { [email |-> e, username |-> n, userType |-> t] :
        e \in {"neo@example.org", "pat@example.org"},
        n \in {"", "Neo"},
        t \in {"patient", "doctor"} }

LoginValues ==
    { [email |-> e, username |-> "", userType |-> "patient"] :
        e \in {"neo@example.org", "pat@example.org"} }

NextAuth ==
    \/ \E values \in LoginValues, configured \in BOOLEAN : onSubmit(TRUE, values, configured)
    \/ \E values \in SignUpValues, configured \in BOOLEAN : onSubmit(FALSE, values, configured)
    \/ \E call \in CallsOf(Patient), ok \in Outcomes : SignInDone(call, ok)
    \/ \E call \in CallsOf(Patient), ok \in Outcomes : CreateUserDone(call, ok)
    \/ \E call \in CallsOf(Patient), ok \in Outcomes : UpdateProfileDone(call, ok)
    \/ \E call \in CallsOf(Patient), ok \in Outcomes : SetDocDone(call, ok)
    \/ \E to \in {"/login", "/signup", "/welcome"} : Navigate(to)
    \/ \E call \in CallsOf(Patient), ok \in Outcomes : FetchUserTypeDone(call, ok)
    \/ handleLogout
    \/ \E call \in CallsOf(Patient), ok \in Outcomes : LogoutDone(call, ok)

SpecAuth == InitAuth /\ [][NextAuth]_vars

----------------------------------------------------------------------------
(* SpecNavbar: the Navbar is rendered in the browser of client Patient,    *)
(* where the three account holders sign in and out                         *)

\* the Navbar has mounted in a signed-out browser, on the login page
InitNavbar == InitAuth

NextNavbar ==
    \/ \E user \in Clients \cup {Null} : NavbarAuthStateChanged(user)
    \/ \E call \in CallsOf(Patient), ok \in Outcomes : NavbarGetDocDone(call, ok)

SpecNavbar == InitNavbar /\ [][NextNavbar]_vars

----------------------------------------------------------------------------
(* SpecWelcome: the patient's account holder, whose session is stored in   *)
(* the browser, opens a page.  Firebase restores the session while or      *)
(* after the page mounts; every profile read succeeds.  What the backend   *)
(* and Firebase do happens eventually, what the user does may never happen *)

\* a page has been loaded and its mount effect has run; the session is not
\* restored yet, auth.currentUser is null.  The profile stored for the
\* account is a patient's or a doctor's.
InitWelcome ==
    /\ OneRequest
    /\ currentUser = [c \in Clients |-> IF c = Patient THEN Null ELSE c]
    /\ mounted = [c \in Clients |-> FALSE]
    /\ calls = [c \in Clients |-> EmptyBag]
    /\ toast = NoToast
    /\ rejection = NoRejection
    /\ docRequests = [d \in Doctors |-> <<>>]
    /\ selectedRequest = [d \in Doctors |-> NoRequest]
    /\ showCalendar = [d \in Doctors |-> FALSE]
    /\ date = [d \in Doctors |-> Now]
    /\ selectedTimeSlot = [d \in Doctors |-> Null]
    /\ medication = [d \in Doctors |-> ""]
    /\ patRequests = <<>>
    /\ resubmission = NoForms
    /\ medicalReport = NoReport
    /\ reportReady = FALSE
    /\ isProcessing = FALSE
    /\ isDialogOpen = FALSE
    /\ isRecording = FALSE
    /\ audioData = Null
    /\ stream = Null
    /\ mediaRecorder = NoRecorder
    /\ micTracks = "none"
    /\ accounts = <<>>
    /\ \E t \in {"patient", "doctor"} :
           users = [u \in Clients |-> IF u = Patient
                                      THEN [ProfileOf(u) EXCEPT !.userType = t]
                                      ELSE ProfileOf(u)]
    /\ isLoading = FALSE
    /\ route \in {"/", "/login", "/welcome"}
    /\ userType = Null
    /\ navbar = NavbarInitial

SessionRestored == currentUser[Patient] = Null /\ AuthStateChange(Patient, Patient)

HomeRead == \E call \in CallsOf(Patient) : HomeGetDocDone(call, TRUE)

WelcomeRead == \E call \in CallsOf(Patient) : FetchUserTypeDone(call, TRUE)

\* the backend call an AuthForm submission awaits returns or rejects
AuthReturns ==
    \E call \in CallsOf(Patient), ok \in Outcomes :
        \/ SignInDone(call, ok)
        \/ CreateUserDone(call, ok)
        \/ UpdateProfileDone(call, ok)
        \/ SetDocDone(call, ok)

NextWelcome ==
    \/ SessionRestored
    \/ \E to \in {"/", "/login", "/signup", "/welcome"} : Navigate(to)
    \/ HomeAuthStateChanged
    \/ HomeRead
    \/ WelcomeRead
    \/ \E values \in LoginValues, configured \in BOOLEAN : onSubmit(TRUE, values, configured)
    \/ \E values \in SignUpValues, configured \in BOOLEAN : onSubmit(FALSE, values, configured)
    \/ AuthReturns

SpecWelcome ==
    /\ InitWelcome
    /\ [][NextWelcome]_vars
    /\ WF_vars(SessionRestored)
    /\ WF_vars(HomeAuthStateChanged)
    /\ WF_vars(HomeRead)
    /\ WF_vars(WelcomeRead)
    /\ WF_vars(AuthReturns)

----------------------------------------------------------------------------
(* SpecSubmit: the life of one medical report.  The patient submits it,    *)
(* any number of times, and records again; no later recording yields a     *)
(* diagnosis, so the report shown at the start is the only one there is    *)

NextSubmit ==
    \/ handleContinue
    \/ \E call \in CallsOf(Patient), ok \in Outcomes : ContinueAddDone(call, ok)
    \/ startRecording
    \/ stopRecording
    \/ RecorderStop(SpokenCough)
    \/ \E call \in CallsOf(Patient), ok \in Outcomes : TranscribeDone(call, ok)
    \/ \E call \in CallsOf(Patient) : DiagnoseDone(call, FALSE)

SpecSubmit == InitSubmit /\ [][NextSubmit]_vars

----------------------------------------------------------------------------
(* Properties *)

\* the step completes the await that `call` of client c is suspended at
Completes(c, call) == CopiesIn(call, calls'[c]) < CopiesIn(call, calls[c])

\* the step leaves a new invocation `call` of client c suspended
Suspends(c, call) == CopiesIn(call, calls'[c]) > CopiesIn(call, calls[c])

\* no handler of any doctor's page is suspended at an await
DoctorsIdle == \A d \in Doctors : InFlight(d) = 0

\* C1: once the doctors' handlers have run to their end, no doctor's pending
\* queue (DoctorWelcomePage.appointmentRequests) lists a request whose stored
\* flaggedForReview is true.
C1_NoFlaggedInQueue ==
    DoctorsIdle =>
        \A d \in Doctors : \A k \in 1..Len(docRequests[d]) :
            ~FlagSet(requests[docRequests[d][k].id].flaggedForReview)

\* C2: for every appointment request at most one Appointment is ever created.
C2_AtMostOneAppointment ==
    \A i, j \in 1..Len(apptOf) : apptOf[i] = apptOf[j] => i = j

\* a confirmScheduling call for request r is still awaiting one of its writes
AwaitingWrites(r) ==
    \E d \in Doctors : \E call \in CallsOf(d) :
        /\ call.op = "confirmScheduling"
        /\ call.pc \in {"updateDoc", "addDoc"}
        /\ call.selectedRequest.id = r

\* C3: when no confirmScheduling call for a request is awaiting its writes any
\* more (each returned, or ended in its catch block) and the request is stored
\* with status 'scheduled', an Appointment created for that request exists.
C3_ScheduledHasAppointment ==
    \A r \in 1..Len(requests) :
        (requests[r].status = "scheduled" /\ ~AwaitingWrites(r)) =>
            \E i \in 1..Len(apptOf) : apptOf[i] = r

\* the step is the successful return of the updateDoc of confirmScheduling
ScheduleWritten(d, call) ==
    /\ call.op = "confirmScheduling" /\ call.pc = "updateDoc"
    /\ Completes(d, call)
    /\ Suspends(d, [call EXCEPT !.pc = "addDoc"])

\* C4: every confirmScheduling call is made with a selected request, a date, a
\* time slot and non-blank medication, and when its update of the request
\* succeeds the stored request moves from status 'pending' to 'scheduled', with
\* scheduledDate the chosen date, scheduledTime the chosen slot and medication
\* the trimmed input.
C4_PendingToScheduled ==
    [][\A d \in Doctors : \A call \in CallsOf(d) :
          ScheduleWritten(d, call) =>
              /\ call.selectedRequest # NoRequest
              /\ call.firestoreDate # Null
              /\ ~Falsy(call.selectedTimeSlot)
              /\ ~Falsy(Trim(call.medication))
              /\ requests[call.selectedRequest.id].status = "pending"
              /\ requests'[call.selectedRequest.id].status = "scheduled"
              /\ requests'[call.selectedRequest.id].scheduledDate # Null
              /\ ToDate(requests'[call.selectedRequest.id].scheduledDate) = call.firestoreDate
              /\ requests'[call.selectedRequest.id].scheduledTime = call.selectedTimeSlot
              /\ requests'[call.selectedRequest.id].medication = Trim(call.medication)
      ]_vars

\* the step is the successful return of the updateDoc of handleResubmit
Resubmitted(call) ==
    /\ call.op = "handleResubmit"
    /\ Completes(Patient, call)
    /\ toast' = Toast(Patient, "Resubmitted")

\* the step is a click on Resubmit Symptoms of the form of request id
ResubmitClicked(id) ==
    /\ id \in DOMAIN resubmission /\ id \in DOMAIN resubmission'
    /\ ~resubmission[id].loading /\ resubmission'[id].loading

\* C5: handleResubmit submits the symptoms and the comment of its form for the
\* request the form shows; when its write succeeds the stored request, under
\* the document id it had, has flaggedForReview = false and these symptoms and
\* this comment, and no request is created or otherwise changed.
C5_ResubmitClearsFlag ==
    [][/\ \A id \in DOMAIN resubmission :
             ResubmitClicked(id) =>
                 Suspends(Patient, [ op       |-> "handleResubmit",
                                     pc       |-> "updateDoc",
                                     id       |-> id,
                                     symptoms |-> resubmission[id].symptoms,
                                     comment  |-> resubmission[id].comment ])
       /\ \A call \in CallsOf(Patient) :
             Resubmitted(call) =>
                 /\ Len(requests') = Len(requests)
                 /\ requests'[call.id].flaggedForReview = JsFalse
                 /\ requests'[call.id].symptoms = call.symptoms
                 /\ requests'[call.id].resubmissionComment = call.comment
                 /\ requests'[call.id].patientId = requests[call.id].patientId
                 /\ requests'[call.id].createdAt = requests[call.id].createdAt
                 /\ \A i \in 1..Len(requests) : i # call.id => requests'[i] = requests[i]
      ]_vars

\* the request was resubmitted with edited symptoms and a comment
C5_Witness ==
    /\ Len(requests) = 1
    /\ requests[1].flaggedForReview = JsFalse
    /\ requests[1].symptoms = "fever "
    /\ requests[1].resubmissionComment = "worse"
    /\ toast = Toast(Patient, "Resubmitted")

\* C6: immediately after a successful resubmission the resubmitted request has
\* status 'pending'.
C6_PendingAfterResubmit ==
    [][\A call \in CallsOf(Patient) :
          Resubmitted(call) => requests'[call.id].status = "pending"]_vars

\* C7: every request starts as 'pending', a status only ever changes from
\* 'pending' to 'scheduled', and no request ever has status 'completed'.
C7_StatusOnlyForward ==
    /\ \A i \in 1..Len(requests) : requests[i].status = "pending"
    /\ [][/\ Len(requests') >= Len(requests)
          /\ \A i \in 1..Len(requests') :
                /\ requests'[i].status \in {"pending", "scheduled"}
                /\ i > Len(requests) => requests'[i].status = "pending"
                /\ (i <= Len(requests) /\ requests[i].status = "scheduled")
                       => requests'[i].status = "scheduled"
         ]_vars

\* the request was flagged, scheduled all the same, and resubmitted after that
C7_Witness ==
    /\ Len(requests) = 1
    /\ requests[1].status = "scheduled"
    /\ requests[1].flaggedForReview = JsFalse
    /\ apptOf = <<1>>

\* C8: handleContinue sends a request only when the report holds a transcript
\* and a diagnosis of a completed processing run and a user is signed in, and a
\* document is created only by such a call returning; the created request has
\* status 'pending', the uid signed in at the click as patientId, no
\* flaggedForReview, and the report's transcript and diagnosis.
C8_RequestOnlyFromReport ==
    [][/\ \A call \in BagToSet(calls'[Patient]) :
             (call.op = "handleContinue" /\ Suspends(Patient, call)) =>
                 /\ reportReady /\ ~isProcessing
                 /\ ~Falsy(medicalReport.transcript)
                 /\ ~Falsy(medicalReport.diagnosis)
                 /\ currentUser[Patient] # Null
                 /\ call.appointmentRequest.patientId = currentUser[Patient]
                 /\ call.appointmentRequest.symptoms = medicalReport.transcript
                 /\ call.appointmentRequest.diagnosis = medicalReport.diagnosis
       /\ requests' # requests =>
             /\ Len(requests') = Len(requests) + 1
             /\ SubSeq(requests', 1, Len(requests)) = requests
             /\ requests'[Len(requests')].status = "pending"
             /\ requests'[Len(requests')].flaggedForReview = Null
             /\ \E call \in CallsOf(Patient) :
                   /\ call.op = "handleContinue"
                   /\ Completes(Patient, call)
                   /\ requests'[Len(requests')].patientId = call.appointmentRequest.patientId
                   /\ requests'[Len(requests')].symptoms = call.appointmentRequest.symptoms
                   /\ requests'[Len(requests')].diagnosis = call.appointmentRequest.diagnosis
      ]_vars

\* the patient's report of the recording was stored as a request
C8_Witness ==
    /\ requests = <<RequestDoc(Patient, DisplayName(Patient), CoughReport)>>
    /\ toast = Toast(Patient, "Success: Your symptoms and diagnosis have been recorded.")
    /\ medicalReport = NoReport

\* the step ends a run of the pipeline in its catch block
PipelineAborted ==
    /\ toast' = Toast(Patient, "Error: Failed to process your recording.")
    /\ ~isProcessing'
    /\ BagCardinality(calls'[Patient]) = BagCardinality(calls[Patient]) - 1
    /\ UNCHANGED <<medicalReport, reportReady, requests>>

\* C9: a step of the pipeline either succeeds (the transcription hands its
\* transcript to the diagnosis; the diagnosis sets the report) or fails, and
\* then the run is over: nothing further is invoked, medicalReport, reportReady
\* and the stored requests are unchanged, the error toast is raised and
\* isProcessing is false.
C9_FailureAbortsPipeline ==
    [][\A call \in CallsOf(Patient) :
          (call.op = "processAudio" /\ Completes(Patient, call)) =>
              \/ /\ call.pc = "transcribeAudio"
                 /\ toast' = Toast(Patient, "Processing: Generating diagnosis...")
                 /\ Suspends(Patient, [call EXCEPT !.pc = "getDiagnosisFromTranscript",
                                                   !.transcript = Transcribe(call.audioData)])
              \/ /\ call.pc = "getDiagnosisFromTranscript"
                 /\ toast' = Toast(Patient, "Complete: Your recording has been processed successfully.")
                 /\ medicalReport' = [transcript |-> call.transcript,
                                      diagnosis  |-> Diagnose(call.transcript)]
                 /\ reportReady'
                 /\ ~isProcessing'
              \/ PipelineAborted
      ]_vars

\* a run failed before any report was made: the toast, and nothing else of it
C9_Witness ==
    /\ toast = Toast(Patient, "Error: Failed to process your recording.")
    /\ audioData = SpokenCough
    /\ ~isProcessing
    /\ InFlight(Patient) = 0
    /\ medicalReport = NoReport /\ ~reportReady
    /\ requests = <<>>

\* C10: the page is never unmounted with the microphone tracks it acquired
\* still live.
C10_TracksStoppedOnTeardown ==
    ~mounted[Patient] => micTracks # "live"

\* C11: every backend call that rejects does so inside a try block, and the
\* step that takes the rejection raises a toast in that client.
C11_FailuresRaiseToast ==
    [][rejection' # NoRejection =>
          /\ rejection'.caught
          /\ toast' # NoToast
          /\ toast'.client = rejection'.client
      ]_vars

\* the sign-up handler is still running for the account uid
SigningUp(uid) ==
    \E call \in CallsOf(Patient) : call.op = "onSubmit" /\ call.uid = uid

\* C12: once the sign-up handler has finished, every account it created has
\* its UserProfile document, keyed by the account's uid, with the account's
\* email and a userType of patient or doctor.
C12_EveryAccountHasProfile ==
    \A k \in 1..Len(accounts) :
        ~SigningUp(accounts[k].uid) =>
            /\ accounts[k].uid \in DOMAIN users
            /\ users[accounts[k].uid].email = accounts[k].email
            /\ users[accounts[k].uid].userType \in {"patient", "doctor"}

\* C13: no step deletes an AppointmentRequest or an Appointment, and every
\* Appointment stays equal to the value it was created with.
C13_NoDeletionNoRewrite ==
    [][/\ Len(requests') >= Len(requests)
       /\ Len(appointments') >= Len(appointments)
       /\ \A i \in 1..Len(appointments) : appointments'[i] = appointments[i]
      ]_vars

\* two doctors each created an Appointment, and both are stored
C13_Witness ==
    /\ Len(appointments) = 2
    /\ appointments[1].assignedDoctor # appointments[2].assignedDoctor
    /\ requests[1].status = "scheduled"

\* C14: a run of the pipeline is linear: the diagnosis is requested only in
\* the step in which the transcription of that run's audio returned, with its
\* transcript; medicalReport and reportReady are set only in the step in which
\* the diagnosis returned, to the transcript and the diagnosis of that run's
\* recording.
C14_PipelineLinear ==
    [][/\ \A next \in BagToSet(calls'[Patient]) :
             ( /\ next.op = "processAudio"
               /\ next.pc = "getDiagnosisFromTranscript"
               /\ Suspends(Patient, next) ) =>
                 /\ next.transcript = Transcribe(next.audioData)
                 /\ Completes(Patient, [next EXCEPT !.pc = "transcribeAudio",
                                                    !.transcript = Null])
                 /\ rejection' = NoRejection
       /\ ( \/ (medicalReport' # medicalReport /\ medicalReport' # NoReport)
            \/ (reportReady' /\ ~reportReady) ) =>
              \E call \in CallsOf(Patient) :
                  /\ call.op = "processAudio"
                  /\ call.pc = "getDiagnosisFromTranscript"
                  /\ Completes(Patient, call)
                  /\ rejection' = NoRejection
                  /\ reportReady'
                  /\ medicalReport' =
                         [ transcript |-> Transcribe(call.audioData),
                           diagnosis  |-> Diagnose(Transcribe(call.audioData)) ]
      ]_vars

\* a run went through both steps and set the report of its recording
C14_Witness ==
    /\ medicalReport = CoughReport
    /\ reportReady
    /\ audioData = SpokenCough
    /\ toast = Toast(Patient, "Complete: Your recording has been processed successfully.")

\* the step is the successful return of the updateDoc of handleFlagForReview
FlagWritten(d, call) ==
    /\ call.op = "handleFlagForReview" /\ call.pc = "updateDoc"
    /\ Completes(d, call)
    /\ Suspends(d, [call EXCEPT !.pc = "getDocs"])

\* the fields of request i the operation of this step may change
OwnFields(i) ==
    IF \E d \in Doctors : \E call \in CallsOf(d) :
           FlagWritten(d, call) /\ call.request.id = i
    THEN {"flaggedForReview"}
    ELSE IF \E call \in CallsOf(Patient) : Resubmitted(call) /\ call.id = i
    THEN {"symptoms", "flaggedForReview", "resubmissionComment"}
    ELSE IF \E d \in Doctors : \E call \in CallsOf(d) :
                ScheduleWritten(d, call) /\ call.selectedRequest.id = i
    THEN {"status", "scheduledDate", "scheduledTime", "medication"}
    ELSE {}

\* C15: a step changes, of a stored request, only the fields of the mutation
\* it performs: flagging flaggedForReview; resubmission symptoms,
\* flaggedForReview and resubmissionComment; scheduling status, scheduledDate,
\* scheduledTime and medication; any other step none.
C15_MutationsTouchOwnFields ==
    [][\A i \in 1..Len(requests) :
          /\ i <= Len(requests')
          /\ DOMAIN requests'[i] = DOMAIN requests[i]
          /\ \A k \in DOMAIN requests[i] :
                requests'[i][k] # requests[i][k] => k \in OwnFields(i)
      ]_vars

\* the request was flagged, resubmitted and scheduled, and is the patient's
\* request of the diagnosis it was created with
C15_Witness ==
    /\ Len(requests) = 1
    /\ requests[1].status = "scheduled"
    /\ requests[1].flaggedForReview = JsFalse
    /\ requests[1].resubmissionComment = ""
    /\ requests[1].patientId = Patient
    /\ requests[1].diagnosis = CoughReport.diagnosis
    /\ requests[1].createdAt = ToTimestamp(Now)

\* C16: a stored flaggedForReview = true is changed only by the resubmission
\* of that request.
C16_FlagStaysUntilResubmit ==
    [][\A i \in 1..Len(requests) :
          ( /\ i <= Len(requests')
            /\ FlagSet(requests[i].flaggedForReview)
            /\ ~FlagSet(requests'[i].flaggedForReview) ) =>
              \E call \in CallsOf(Patient) : Resubmitted(call) /\ call.id = i
      ]_vars

\* the request was scheduled while flagged, and is flagged still
C16_Witness ==
    /\ Len(requests) = 1
    /\ requests[1].status = "scheduled"
    /\ requests[1].flaggedForReview = JsTrue
    /\ apptOf = <<1>>

\* C17: an Appointment is created only by a confirmScheduling call whose
\* request is stored as 'scheduled', so every Appointment belongs to a
\* scheduled request; when the request update rejects, no Appointment is
\* created or requested and the doctor's selected request, date, slot and
\* medication are unchanged.
C17_AppointmentAfterUpdate ==
    [][/\ \A i \in 1..Len(apptOf') : requests'[apptOf'[i]].status = "scheduled"
       /\ appointments' # appointments =>
              \E d \in Doctors : \E call \in CallsOf(d) :
                  /\ call.op = "confirmScheduling" /\ call.pc = "addDoc"
                  /\ Completes(d, call)
                  /\ requests[call.selectedRequest.id].status = "scheduled"
       /\ \A d \in Doctors : \A call \in CallsOf(d) :
              ( /\ call.op = "confirmScheduling" /\ call.pc = "updateDoc"
                /\ Completes(d, call)
                /\ rejection' # NoRejection ) =>
                  /\ UNCHANGED <<requests, appointments, apptOf>>
                  /\ UNCHANGED <<selectedRequest, date, selectedTimeSlot, medication>>
                  /\ InFlight(d)' = InFlight(d) - 1
                  /\ toast' = Toast(d, "Error: Failed to schedule appointment.")
      ]_vars

\* the request update rejected: nothing is stored and the modal is as it was
C17_Witness ==
    /\ rejection = Rejected("drA", "updateDoc", TRUE)
    /\ toast = Toast("drA", "Error: Failed to schedule appointment.")
    /\ requests[1].status = "pending"
    /\ appointments = <<>>
    /\ selectedRequest["drA"] # NoRequest
    /\ selectedTimeSlot["drA"] = availableTimeSlots[4]
    /\ medication["drA"] = " aspirin "

\* the step takes an onSubmit call to its end: it leaves no next await of it
SubmissionEnds(call) ==
    /\ call.op = "onSubmit"
    /\ Completes(Patient, call)
    /\ ~\E next \in BagToSet(calls'[Patient]) :
           next.op = "onSubmit" /\ Suspends(Patient, next)

\* C18: the step that ends an AuthForm submission leaves isLoading false and
\* is a successful login (notification, /welcome), a successful sign-up
\* (notification, /login) or a caught failure (failure notification, no
\* navigation); a submission that has not ended does not navigate, and every
\* failure notification comes with isLoading false and no navigation.
C18_SubmissionSettles ==
    [][/\ \A call \in CallsOf(Patient) :
             /\ SubmissionEnds(call) =>
                   /\ ~isLoading'
                   /\ \/ /\ call.pc = "signInWithEmailAndPassword"
                         /\ rejection' = NoRejection
                         /\ toast' = Toast(Patient, "Login Successful")
                         /\ route' = "/welcome"
                      \/ /\ call.pc = "setDoc"
                         /\ rejection' = NoRejection
                         /\ toast' = Toast(Patient, "Signup Successful")
                         /\ route' = "/login"
                      \/ /\ rejection' # NoRejection
                         /\ rejection'.caught
                         /\ toast' = Toast(Patient, "Authentication Failed")
                         /\ route' = route
             /\ ( /\ call.op = "onSubmit"
                  /\ Completes(Patient, call)
                  /\ ~SubmissionEnds(call) ) =>
                    /\ route' = route
                    /\ toast' = NoToast
       /\ toast' = Toast(Patient, "Authentication Failed") =>
              /\ ~isLoading'
              /\ route' = route
      ]_vars

\* the profile write of a sign-up rejected: the account exists, the form has
\* reported the failure, stopped loading and stayed on its page
C18_Witness ==
    /\ rejection = Rejected(Patient, "setDoc", TRUE)
    /\ toast = Toast(Patient, "Authentication Failed")
    /\ ~isLoading
    /\ route = "/signup"
    /\ Len(accounts) = 1

\* one of the two validations of confirmScheduling refuses the doctor's input
Refused(d) ==
    \/ selectedRequest[d] = NoRequest
    \/ date[d] = Null
    \/ Falsy(selectedTimeSlot[d])
    \/ Falsy(Trim(medication[d]))

\* C19: confirmScheduling sends no write when the selected request, the date
\* or the slot is missing or the medication is blank, and its refusal leaves
\* the store, the selection and the calls in flight as they were; every
\* request stored as 'scheduled' has one of the six slots as scheduledTime
\* and a medication that is not empty.
C19_ValidationBlocksWrites ==
    [][/\ \A d \in Doctors :
             /\ Refused(d) =>
                   ~\E next \in BagToSet(calls'[d]) :
                       /\ next.op = "confirmScheduling" /\ next.pc = "updateDoc"
                       /\ Suspends(d, next)
             /\ toast' \in { Toast(d, "Error: Please select a date and time slot."),
                             Toast(d, "Error: Please enter basic medication details.") } =>
                   /\ Refused(d)
                   /\ UNCHANGED <<requests, appointments, apptOf>>
                   /\ UNCHANGED <<selectedRequest, date, selectedTimeSlot, medication>>
                   /\ calls' = calls
       /\ \A i \in 1..Len(requests') :
             requests'[i].status = "scheduled" =>
                 /\ \E k \in 1..Len(availableTimeSlots) :
                        requests'[i].scheduledTime = availableTimeSlots[k]
                 /\ ~Falsy(requests'[i].medication)
      ]_vars

\* Confirm was clicked with a slot and a medication but no date: refused
C19_Witness ==
    /\ toast = Toast("drA", "Error: Please select a date and time slot.")
    /\ date["drA"] = Null
    /\ selectedRequest["drA"] # NoRequest
    /\ selectedTimeSlot["drA"] = availableTimeSlots[1]
    /\ medication["drA"] = " aspirin "
    /\ requests[1].status = "pending"
    /\ appointments = <<>>

\* C20: at the step that applies a scheduling update, the request it is
\* applied to is not flagged for review.
C20_NeverScheduledWhileFlagged ==
    [][\A d \in Doctors : \A call \in CallsOf(d) :
          ScheduleWritten(d, call) =>
              ~FlagSet(requests[call.selectedRequest.id].flaggedForReview)
      ]_vars

\* the stored requests made of the report of the recording "cough"
RequestsOfReport ==
    { i \in 1..Len(requests) :
        /\ requests[i].symptoms = CoughReport.transcript
        /\ requests[i].diagnosis = CoughReport.diagnosis }

\* C21: one processed medical report results in at most one stored
\* AppointmentRequest, however often Submit is invoked and whether or not a
\* later recording fails to process.
C21_OneRequestPerReport == Cardinality(RequestsOfReport) <= 1

\* C22: while the browser is signed out, and the listener has seen it, the
\* Navbar shows loggedIn = false, username = null and userType = null,
\* whatever profile reads of earlier sign-ins are still pending or return.
C22_SignedOutNavbarIsBlank ==
    currentUser[Patient] = Null => navbar = NavbarInitial

\* the welcome page is open for a signed-in user whose profile exists
WelcomeOpened ==
    /\ route = "/welcome"
    /\ currentUser[Patient] # Null
    /\ currentUser[Patient] \in DOMAIN users

\* C23: the welcome page never renders the dashboard of the other userType,
\* and once it is open for a signed-in user whose profile exists it
\* eventually renders the dashboard of the stored userType, unless the user
\* leaves the page.
C23_DashboardEventually ==
    /\ [](WelcomeOpened /\ userType # Null =>
              userType = users[currentUser[Patient]].userType)
    /\ WelcomeOpened ~>
          ( \/ route # "/welcome"
            \/ /\ WelcomeOpened
               /\ userType = users[currentUser[Patient]].userType )

====
